---- MODULE Spec2Model ----
(***************************************************************************)
(* A model of the document-intake and classification backend               *)
(* (src/backend/API).  The module holds several independent state machines *)
(* over one set of variables:                                              *)
(*   - the GridFS object store written by upload_file_to_gridfs,           *)
(*   - the tree-of-prompts agent's chains and the chain routes,            *)
(*   - the parse route,                                                    *)
(*   - the PDF split / merge utilities,                                    *)
(*   - the bounding-box combiner.                                          *)
(* Each has its own specification; the variables of the others stay idle.  *)
(***************************************************************************)
EXTENDS Integers, Sequences, FiniteSets, TLC

VARIABLES
    \* ---- object store (GridFS) ----
    fsFiles,      \* set of stored blobs [id, filename, content]
    nextId,       \* next ObjectId the store hands out
    upRet,        \* the last upload_file_to_gridfs call and what it returned
    \* ---- tree-of-prompts agent and its chain routes ----
    tree,         \* ToP_Agent.tree: the four chains, indexed 0..3
    chainsFile,   \* content of top_agent_chains.json
    lastReq,      \* the last chain-route request
    lastStatus,   \* HTTP status it was answered with
    nOps,         \* number of chain-route requests served
    \* ---- PDF split / extract / merge ----
    mPc,          \* "idle", "start", "split", "extracted", "merged"
    mPdf,         \* the PDF given to split_pdf
    mChunkSize,   \* chunk_size
    mBlocks,      \* layout service: text blocks on each page of the PDF
    mImgs,        \* layout service: pages with a detected visual element
    mChunks,      \* what split_pdf returned
    mData,        \* extract_text_with_boxes of each chunk
    mOut,         \* what merge_extracted_data returned
    \* ---- bounding-box combiner ----
    cPc,          \* "idle", "start", "done"
    cIn,          \* extracted_data given to combine_bounding_boxes
    cOut,         \* extracted_data it returned
    \* ---- parse route ----
    pPc,          \* position of the request in upload_and_process_pdf
    pReq,         \* the request being served
    pChunks,      \* the chunks sent to the layout service
    pChunkIdx,    \* chunks processed so far
    pRaised,      \* first exception raised by a step of the request
    pResp,        \* the answer sent to the client
    pTempDir,     \* whether the request's temporary directory exists
    pFileId,      \* pdf_file_id returned by upload_file_to_gridfs
    bbDocs,       \* collection bounding_boxes
    imgDocs,      \* collection bounding_boxes_img
    bgTasks,      \* background tasks scheduled to run after the answer
    nParse,       \* number of parse requests received
    \* ---- one classification run of the agent ----
    rPc,          \* "idle", "prompt", "llm", "done"
    rResp,        \* the model's response to the category-picking prompt
    rClass,       \* what pick_chain returned
    rIndex,       \* index of the current call of run_chain
    rSteps,       \* the instructions sent to the model so far, in order
    rOutcome,     \* "none", "running", "returned", "IndexError", "LlmError"
    \* ---- image safety classifier ----
    vPc,          \* "idle", "start", "done"
    vIn,          \* the images, the batch_size argument and the behaviour of the service
    vOut,         \* what batch_classify_images_safe_search returned, and the calls it made
    \* ---- reading the agent result ----
    aPc,          \* "idle", "start", "done"
    aIn,          \* the agent result handed to parse_top_agent_response
    aOut,         \* what parse_top_agent_response returned
    \* ---- classifying the stored boxes ----
    kPc,          \* "idle", "start", "running", "done"
    kDoc0,        \* the pages of the stored document when classify_bounding_boxes was called
    kStored,      \* the pages of the document in the bounding_boxes collection
    kMeta,        \* bbox_metadata, with the text of each collected box
    kPending,     \* the blocks run_doc submitted that have not completed
    kResults,     \* block_results, in the order the blocks completed
    kRet,         \* what classify_bounding_boxes returned
    kAgentCalls,  \* number of calls of run_doc
    \* ---- first response read twice ----
    lPc,          \* "idle", "start", "done"
    lResp,        \* the model response to the category-picking prompt
    lPick,        \* the chain index pick_chain returned for it
    lName,        \* the category name parse_top_agent_response derived from it
    \* ---- worker pool of run_doc ----
    wPc,          \* "idle", "ready", "collecting", "done"
    wEnv,         \* TOP_AGENT_MAX_WORKERS in the environment
    wMax,         \* MAX_WORKERS
    wBlocks,      \* number of blocks handed to run_doc
    wQueued,      \* the submitted blocks no worker has taken yet
    wRunning,     \* the blocks being classified
    wThrew,       \* the blocks whose run raised
    wResults,     \* block_results
    \* ---- writing classifications back ----
    uPc,          \* "idle", "start", "done"
    uDoc0,        \* the pages of the stored document when the update was called
    uStored,      \* the pages of the stored document
    uFound,       \* whether find_one returns the document
    uCls,         \* the classifications list
    uRet,         \* what update_bounding_box_classifications returned
    uWrites,      \* number of update_one calls
    \* ---- agent construction ----
    gPc,          \* "idle", "start", "done"
    gFile0,       \* the chain file before the agent is constructed
    gFile,        \* the chain file
    gTree,        \* the chains the constructed agent holds
    \* ---- database handles ----
    svcClient,    \* client of services/database.py, 0 is None
    svcHandles,   \* db and fs of services/database.py, by the client they were made from
    apiClient,    \* client of database.py, 0 is None
    apiHandles,   \* db and fs of database.py
    openClients,  \* the clients made and not closed
    nOpened,      \* how many clients the process has made
    dbCreds,      \* MONGODB_USER and MONGODB_PASS are both set
    dbLast,       \* the last get_database or close_database call and its outcome
    dbCalls,      \* calls made so far
    dbVerify,     \* the startup verification task, "pending" or "done"
    dbDown,       \* the shutdown hook has run
    dbFailed,     \* some database call has failed
    \* ---- parse again during classification ----
    xDoc,         \* the BoundingBoxesDocument of the filename, pdf_file_id 0 when there is none
    xNextId,      \* the file id the next GridFS upload gets
    xReq,         \* the parse request under way
    xRuns,        \* the classification run of each file id
    xUploaded,    \* what the latest completed upload_bounding_boxes wrote
    xWriters      \* the file ids whose runs changed the pages since then

storeVars == <<fsFiles, nextId, upRet>>
chainVars == <<tree, chainsFile, lastReq, lastStatus, nOps>>

mergeVars == <<mPc, mPdf, mChunkSize, mBlocks, mImgs, mChunks, mData, mOut>>
combineVars == <<cPc, cIn, cOut>>
parseVars == <<pPc, pReq, pChunks, pChunkIdx, pRaised, pResp, pTempDir, pFileId,
               bbDocs, imgDocs, bgTasks, nParse>>

runVars == <<rPc, rResp, rClass, rIndex, rSteps, rOutcome>>
visionVars == <<vPc, vIn, vOut>>
agentVars == <<aPc, aIn, aOut>>
classifyVars == <<kPc, kDoc0, kStored, kMeta, kPending, kResults, kRet, kAgentCalls>>
labelVars == <<lPc, lResp, lPick, lName>>
poolVars == <<wPc, wEnv, wMax, wBlocks, wQueued, wRunning, wThrew, wResults>>
updateVars == <<uPc, uDoc0, uStored, uFound, uCls, uRet, uWrites>>
loadVars == <<gPc, gFile0, gFile, gTree>>
dbVars == <<svcClient, svcHandles, apiClient, apiHandles, openClients, nOpened, dbCreds, dbLast, dbCalls, dbVerify, dbDown, dbFailed>>
raceVars == <<xDoc, xNextId, xReq, xRuns, xUploaded, xWriters>>

\* what the actions of each part leave unchanged: the variables of the others
\* (the parse route writes the object store)
exceptStore == <<chainVars, mergeVars, combineVars, parseVars, runVars, visionVars, agentVars, classifyVars, labelVars, poolVars, updateVars, loadVars, dbVars, raceVars>>
exceptChain == <<storeVars, mergeVars, combineVars, parseVars, runVars, visionVars, agentVars, classifyVars, labelVars, poolVars, updateVars, loadVars, dbVars, raceVars>>
exceptMerge == <<storeVars, chainVars, combineVars, parseVars, runVars, visionVars, agentVars, classifyVars, labelVars, poolVars, updateVars, loadVars, dbVars, raceVars>>
exceptCombine == <<storeVars, chainVars, mergeVars, parseVars, runVars, visionVars, agentVars, classifyVars, labelVars, poolVars, updateVars, loadVars, dbVars, raceVars>>
exceptParse == <<chainVars, mergeVars, combineVars, runVars, visionVars, agentVars, classifyVars, labelVars, poolVars, updateVars, loadVars, dbVars, raceVars>>
exceptRun == <<storeVars, chainVars, mergeVars, combineVars, parseVars, visionVars, agentVars, classifyVars, labelVars, poolVars, updateVars, loadVars, dbVars, raceVars>>
exceptVision == <<storeVars, chainVars, mergeVars, combineVars, parseVars, runVars, agentVars, classifyVars, labelVars, poolVars, updateVars, loadVars, dbVars, raceVars>>
exceptAgent == <<storeVars, chainVars, mergeVars, combineVars, parseVars, runVars, visionVars, classifyVars, labelVars, poolVars, updateVars, loadVars, dbVars, raceVars>>
exceptClassify == <<storeVars, chainVars, mergeVars, combineVars, parseVars, runVars, visionVars, agentVars, labelVars, poolVars, updateVars, loadVars, dbVars, raceVars>>
exceptLabel == <<storeVars, chainVars, mergeVars, combineVars, parseVars, runVars, visionVars, agentVars, classifyVars, poolVars, updateVars, loadVars, dbVars, raceVars>>
exceptPool == <<storeVars, chainVars, mergeVars, combineVars, parseVars, runVars, visionVars, agentVars, classifyVars, labelVars, updateVars, loadVars, dbVars, raceVars>>
exceptUpdate == <<storeVars, chainVars, mergeVars, combineVars, parseVars, runVars, visionVars, agentVars, classifyVars, labelVars, poolVars, loadVars, dbVars, raceVars>>
exceptLoad == <<storeVars, chainVars, mergeVars, combineVars, parseVars, runVars, visionVars, agentVars, classifyVars, labelVars, poolVars, updateVars, dbVars, raceVars>>
exceptDb == <<storeVars, chainVars, mergeVars, combineVars, parseVars, runVars, visionVars, agentVars, classifyVars, labelVars, poolVars, updateVars, loadVars, raceVars>>
exceptRace == <<storeVars, chainVars, mergeVars, combineVars, parseVars, runVars, visionVars, agentVars, classifyVars, labelVars, poolVars, updateVars, loadVars, dbVars>>

vars == <<fsFiles, nextId, upRet, tree, chainsFile, lastReq, lastStatus, nOps,
          mPc, mPdf, mChunkSize, mBlocks, mImgs, mChunks, mData, mOut,
          cPc, cIn, cOut,
          pPc, pReq, pChunks, pChunkIdx, pRaised, pResp, pTempDir, pFileId,
          bbDocs, imgDocs, bgTasks, nParse,
          rPc, rResp, rClass, rIndex, rSteps, rOutcome,
          vPc, vIn, vOut,
          aPc, aIn, aOut,
          kPc, kDoc0, kStored, kMeta, kPending, kResults, kRet, kAgentCalls,
          lPc, lResp, lPick, lName,
          wPc, wEnv, wMax, wBlocks, wQueued, wRunning, wThrew, wResults,
          uPc, uDoc0, uStored, uFound, uCls, uRet, uWrites,
          gPc, gFile0, gFile, gTree,
          svcClient, svcHandles, apiClient, apiHandles, openClients, nOpened, dbCreds, dbLast, dbCalls, dbVerify, dbDown, dbFailed,
          xDoc, xNextId, xReq, xRuns, xUploaded, xWriters>>

None == "None"

(***************************************************************************)
(* Object store: routes/upload.py, upload_file_to_gridfs                   *)
(***************************************************************************)

\* how many blobs the store hands identifiers to in one run of the model
MaxUploads == 4

\* filenames a caller may pass; the first two are empty / blank
Filenames == {"", " ", "a.pdf", "b.pdf"}
Contents == {"x", "y"}

\* `not filename or not filename.strip()`
IsBlankFilename(fn) == fn \in {"", " "}

FilesNamed(fn) == {f \in fsFiles : f.filename = fn}

\* upload_file_to_gridfs with the delete of the existing blob left out
upload_file_to_gridfs_nodelete(fn, content) ==
    /\ ~IsBlankFilename(fn)
    /\ nextId <= MaxUploads
    /\ LET matches == FilesNamed(fn)
           is_update == matches # {}
       IN  /\ fsFiles' = fsFiles \cup {[id |-> nextId, filename |-> fn, content |-> content]}
           /\ nextId' = nextId + 1
           /\ upRet' = [filename |-> fn, file_id |-> nextId, is_update |-> is_update,
                        prior |-> {f.id : f \in matches}, outcome |-> "returned"]

\* upload_file_to_gridfs(file_contents, filename, ...): find_one by filename,
\* delete the blob found, put the new blob, return (str(file_id), is_update).
\* find_one returns one of the matching blobs; `prior` records (for the
\* properties only) the identifiers that carried the filename before the call.
upload_file_to_gridfs(fn, content) ==
    /\ ~IsBlankFilename(fn)
    /\ nextId <= MaxUploads
    /\ LET matches == FilesNamed(fn)
           is_update == matches # {}
       IN  /\ \E existing \in (IF is_update THEN matches ELSE {None}) :
                 fsFiles' = (IF is_update THEN fsFiles \ {existing} ELSE fsFiles)
                            \cup {[id |-> nextId, filename |-> fn, content |-> content]}
           /\ nextId' = nextId + 1
           /\ upRet' = [filename |-> fn, file_id |-> nextId, is_update |-> is_update,
                        prior |-> {f.id : f \in matches}, outcome |-> "returned"]

\* a call with an empty or blank filename raises ValueError before any access
upload_file_to_gridfs_invalid(fn) ==
    /\ IsBlankFilename(fn)
    /\ upRet' = [filename |-> fn, file_id |-> 0, is_update |-> FALSE, prior |-> {},
                 outcome |-> "ValueError"]
    /\ UNCHANGED <<fsFiles, nextId>>

\* a call in which fs.put raises: the blob found by find_one is already deleted
upload_file_to_gridfs_put_fails(fn) ==
    /\ ~IsBlankFilename(fn)
    /\ LET matches == FilesNamed(fn)
       IN  \E existing \in (IF matches # {} THEN matches ELSE {None}) :
              fsFiles' = (IF matches # {} THEN fsFiles \ {existing} ELSE fsFiles)
    /\ upRet' = [filename |-> fn, file_id |-> 0, is_update |-> FALSE, prior |-> {},
                 outcome |-> "raised"]
    /\ UNCHANGED nextId

StoreInit ==
    /\ fsFiles = {}
    /\ nextId = 1
    /\ upRet = [filename |-> "", file_id |-> 0, is_update |-> FALSE, prior |-> {},
                outcome |-> "none"]

StoreNext ==
    \/ \E fn \in Filenames, c \in Contents :
          upload_file_to_gridfs(fn, c) /\ UNCHANGED exceptStore
    \/ \E fn \in Filenames :
          upload_file_to_gridfs_invalid(fn) /\ UNCHANGED exceptStore
    \/ \E fn \in Filenames :
          upload_file_to_gridfs_put_fails(fn) /\ UNCHANGED exceptStore

(***************************************************************************)
(* Tree-of-prompts agent: services/top_agent.py, and its routes            *)
(* routes/top_agent.py                                                     *)
(***************************************************************************)

\* how many chain-route requests one run of the model serves
MaxChainOps == 2

Categories == 0..3

\* the fixed closing instruction of each category's default chain
Closing(c) ==
    CASE c = 0 -> "close_sensitive"
      [] c = 1 -> "close_confidential"
      [] c = 2 -> "close_public"
      [] c = 3 -> "close_unsafe"

\* _get_default_chains: four instructions and the closing instruction each
DefaultChains ==
    [c \in Categories |->
        CASE c = 0 -> <<"sens1", "sens2", "sens3", "sens4", Closing(0)>>
          [] c = 1 -> <<"conf1", "conf2", "conf3", "conf4", Closing(1)>>
          [] c = 2 -> <<"pub1", "pub2", "pub3", "pub4", Closing(2)>>
          [] c = 3 -> <<"unsafe1", "unsafe2", "unsafe3", "unsafe4", Closing(3)>>]

\* texts a caller sends as new_text, and texts the LLM answers ai_chain_edit with
NewTexts == {"new"}
LlmTexts == {"gen"}

\* tree_index and chain_index values a request may carry (any integer passes
\* the request model; these reach every branch)
TreeIndexes == -1..4
ChainIndexes == -(Len(DefaultChains[0]) + MaxChainOps + 1)..(Len(DefaultChains[0]) + MaxChainOps)

\* list.append(x) in the place of list.insert(-1, x)
InsertBeforeLast_append(chain, x) == Append(chain, x)

\* list.insert(-1, x): before the last element; into an empty list, at the front
InsertBeforeLast(chain, x) ==
    IF Len(chain) = 0 THEN <<x>>
    ELSE SubSeq(chain, 1, Len(chain) - 1) \o <<x>> \o <<chain[Len(chain)]>>

\* Python list indexing: i is valid iff -len <= i < len; a negative i counts
\* from the end.  The result is the 1-based position in the TLA+ sequence.
PyIndexValid(chain, i) == -Len(chain) <= i /\ i < Len(chain)
PyIndex(chain, i) == IF i < 0 THEN Len(chain) + i + 1 ELSE i + 1

\* chain[i] = x
SetAt(chain, i, x) == [chain EXCEPT ![PyIndex(chain, i)] = x]

\* chain.pop(i)
PopAt(chain, i) ==
    SubSeq(chain, 1, PyIndex(chain, i) - 1) \o SubSeq(chain, PyIndex(chain, i) + 1, Len(chain))

\* the route's guard `if not (0 <= request.tree_index <= 3)`
TreeIndexOk(ti) == 0 <= ti /\ ti <= 3

\* the status a chain route answers with when its own guard raises
\* HTTPException(400) inside the try block: `except Exception` catches the
\* HTTPException and raises HTTPException(500) in its place
BadTreeIndexStatus == 500

Served(route, ti, ci, status) ==
    /\ lastReq' = [route |-> route, tree_index |-> ti, chain_index |-> ci]
    /\ lastStatus' = status
    /\ nOps' = nOps + 1

\* the JSON object _save_chains writes: one key per category
ChainsData(chains) ==
    [sensitive |-> chains[0], confidential |-> chains[1],
     public |-> chains[2], unsafe |-> chains[3]]

\* _load_chains on an existing file: the tree built from the four keys
load_chains(chains_data) ==
    [c \in Categories |->
        CASE c = 0 -> chains_data.sensitive
          [] c = 1 -> chains_data.confidential
          [] c = 2 -> chains_data.public
          [] c = 3 -> chains_data.unsafe]

\* an edit that leaves the file as it was
SaveChains_skipped(newTree) == chainsFile' = chainsFile

\* _save_chains: the four chains written to the file
SaveChains(newTree) == chainsFile' = ChainsData(newTree)

\* POST /top-agent/chain/ai-edit -> ToP_Agent.ai_chain_edit
\* llm is the model's answer, or None when vultr_llm.run raises
ai_chain_edit(ti, llm) ==
    /\ nOps < MaxChainOps
    /\ IF ~TreeIndexOk(ti)
       THEN /\ Served("ai-edit", ti, 0, BadTreeIndexStatus)
            /\ UNCHANGED <<tree, chainsFile>>
       ELSE IF llm = None
       THEN /\ Served("ai-edit", ti, 0, 500)
            /\ UNCHANGED <<tree, chainsFile>>
       ELSE /\ tree' = [tree EXCEPT ![ti] = InsertBeforeLast(tree[ti], llm)]
            /\ SaveChains(tree')
            /\ Served("ai-edit", ti, 0, 200)

\* POST /top-agent/chain/human-edit -> ToP_Agent.human_chain_edit
human_chain_edit(ti, ci, text) ==
    /\ nOps < MaxChainOps
    /\ IF ~TreeIndexOk(ti)
       THEN /\ Served("human-edit", ti, ci, BadTreeIndexStatus)
            /\ UNCHANGED <<tree, chainsFile>>
       ELSE IF ~PyIndexValid(tree[ti], ci)
       THEN \* IndexError -> HTTP 400
            /\ Served("human-edit", ti, ci, 400)
            /\ UNCHANGED <<tree, chainsFile>>
       ELSE /\ tree' = [tree EXCEPT ![ti] = SetAt(tree[ti], ci, text)]
            /\ SaveChains(tree')
            /\ Served("human-edit", ti, ci, 200)

\* POST /top-agent/chain/human-add -> ToP_Agent.human_chain_add
human_chain_add(ti, text) ==
    /\ nOps < MaxChainOps
    /\ IF ~TreeIndexOk(ti)
       THEN /\ Served("human-add", ti, 0, BadTreeIndexStatus)
            /\ UNCHANGED <<tree, chainsFile>>
       ELSE /\ tree' = [tree EXCEPT ![ti] = InsertBeforeLast(tree[ti], text)]
            /\ SaveChains(tree')
            /\ Served("human-add", ti, 0, 200)

\* POST /top-agent/chain/human-remove -> ToP_Agent.human_chain_remove
human_chain_remove(ti, ci) ==
    /\ nOps < MaxChainOps
    /\ IF ~TreeIndexOk(ti)
       THEN /\ Served("human-remove", ti, ci, BadTreeIndexStatus)
            /\ UNCHANGED <<tree, chainsFile>>
       ELSE IF ~PyIndexValid(tree[ti], ci)
       THEN \* IndexError -> HTTP 400
            /\ Served("human-remove", ti, ci, 400)
            /\ UNCHANGED <<tree, chainsFile>>
       ELSE /\ tree' = [tree EXCEPT ![ti] = PopAt(tree[ti], ci)]
            /\ SaveChains(tree')
            /\ Served("human-remove", ti, ci, 200)

\* a process restart: a new ToP_Agent, its chains read from the file
ToP_Agent_init ==
    /\ tree' = load_chains(chainsFile)
    /\ UNCHANGED <<chainsFile, lastReq, lastStatus, nOps>>

\* the agent constructed with no chain file: the defaults, saved to the file
ChainInit ==
    /\ tree = DefaultChains
    /\ chainsFile = ChainsData(DefaultChains)
    /\ lastReq = [route |-> "none", tree_index |-> 0, chain_index |-> 0]
    /\ lastStatus = 0
    /\ nOps = 0

ChainNext ==
    \/ \E ti \in TreeIndexes, llm \in LlmTexts \cup {None} :
          ai_chain_edit(ti, llm) /\ UNCHANGED exceptChain
    \/ \E ti \in TreeIndexes, ci \in ChainIndexes, t \in NewTexts :
          human_chain_edit(ti, ci, t) /\ UNCHANGED exceptChain
    \/ \E ti \in TreeIndexes, t \in NewTexts :
          human_chain_add(ti, t) /\ UNCHANGED exceptChain
    \/ \E ti \in TreeIndexes, ci \in ChainIndexes :
          human_chain_remove(ti, ci) /\ UNCHANGED exceptChain
    \/ ToP_Agent_init /\ UNCHANGED exceptChain


(***************************************************************************)
(* PDF utilities: services/pdf_utils.py (split_pdf, merge_extracted_data)  *)
(* and the extraction they recombine, pdfparse.py                          *)
(* (extract_text_with_boxes).                                              *)
(*                                                                         *)
(* A PDF is modelled by the sequence of its pages, each page named by its  *)
(* position in the uploaded document, and by whether its bytes are the     *)
(* uploaded bytes.  The layout service's answer for a page is the number   *)
(* of text blocks and whether a visual element was detected on it.         *)
(***************************************************************************)

\* largest document, chunk size and number of text blocks per page drawn
MaxPages == 3
MaxChunkSize == 3
MaxBlocks == 4

Min(a, b) == IF a < b THEN a ELSE b

Digit(d) ==
    CASE d = 0 -> "0" [] d = 1 -> "1" [] d = 2 -> "2" [] d = 3 -> "3" [] d = 4 -> "4"
      [] d = 5 -> "5" [] d = 6 -> "6" [] d = 7 -> "7" [] d = 8 -> "8" [] d = 9 -> "9"

\* str(n) for n >= 0: the decimal digits, as a sequence of characters
RECURSIVE PyStr(_)
PyStr(n) == IF n < 10 THEN <<Digit(n)>> ELSE PyStr(n \div 10) \o <<Digit(n % 10)>>

\* the chunks split_pdf builds from start_page on: range(start, total, chunk_size)
RECURSIVE SplitFrom(_, _, _)
SplitFrom(pages, start_page, chunk_size) ==
    IF start_page >= Len(pages) THEN <<>>
    ELSE LET end_page == Min(start_page + chunk_size, Len(pages))
         IN  <<[pages |-> SubSeq(pages, start_page + 1, end_page), original |-> FALSE]>>
             \o SplitFrom(pages, end_page, chunk_size)

\* split_pdf(pdf_content, chunk_size)
split_pdf(pdf, chunk_size) ==
    IF Len(pdf.pages) <= chunk_size THEN <<pdf>>
    ELSE SplitFrom(pdf.pages, 0, chunk_size)

\* the annotations extract_text_with_boxes emits for one page: one per block,
\* identifiers counting on from bbox_id_counter
PageAnnotations(src, nblocks, bbox_id_counter) ==
    [b \in 1..nblocks |->
        [id |-> PyStr(bbox_id_counter + b - 1), src |-> <<src, b>>, type |-> "block"]]

\* extract_text_with_boxes, pages j..: the page loop with its running counter
RECURSIVE ExtractPages(_, _, _, _)
ExtractPages(chunk_pages, blocks, j, bbox_id_counter) ==
    IF j > Len(chunk_pages) THEN <<>>
    ELSE LET src == chunk_pages[j]
         IN  <<[page_number |-> j, src |-> src,
                text_annotations |-> PageAnnotations(src, blocks[src], bbox_id_counter)]>>
             \o ExtractPages(chunk_pages, blocks, j + 1, bbox_id_counter + blocks[src])

\* extract_text_with_boxes: the image list, one entry per detected visual element
RECURSIVE ExtractImages(_, _, _)
ExtractImages(chunk_pages, imgs, j) ==
    IF j > Len(chunk_pages) THEN <<>>
    ELSE (IF chunk_pages[j] \in imgs
          THEN <<[page_number |-> j, src |-> chunk_pages[j]]>> ELSE <<>>)
         \o ExtractImages(chunk_pages, imgs, j + 1)

\* document.text of a chunk: the texts of its blocks, page after page
RECURSIVE ChunkText(_, _, _)
ChunkText(chunk_pages, blocks, j) ==
    IF j > Len(chunk_pages) THEN <<>>
    ELSE [b \in 1..blocks[chunk_pages[j]] |-> <<chunk_pages[j], b>>]
         \o ChunkText(chunk_pages, blocks, j + 1)

\* extract_text_with_boxes(document) for the layout service's answer to a chunk
extract_text_with_boxes(chunk, blocks, imgs) ==
    [full_text |-> ChunkText(chunk.pages, blocks, 1),
     pages |-> ExtractPages(chunk.pages, blocks, 1, 1),
     images |-> ExtractImages(chunk.pages, imgs, 1)]

\* the merge with the identifiers of the chunks kept as they are
ReassignIds_keep(text_annotations, bbox_id_counter) == text_annotations

\* `annotation['id'] = str(bbox_id_counter); bbox_id_counter += 1` over a page
ReassignIds(text_annotations, bbox_id_counter) ==
    [k \in 1..Len(text_annotations) |->
        [text_annotations[k] EXCEPT !.id = PyStr(bbox_id_counter + k - 1)]]

\* the merge with a page offset that never advances
NextPageOffset_stuck(page_offset, chunk_pages) == page_offset

\* `page_offset += len(chunk_pages)`
NextPageOffset(page_offset, chunk_pages) == page_offset + Len(chunk_pages)

\* the page loop of merge_extracted_data over one chunk, from page j on
RECURSIVE MergePages(_, _, _, _)
MergePages(chunk_pages, j, page_offset, bbox_id_counter) ==
    IF j > Len(chunk_pages) THEN <<>>
    ELSE LET page == chunk_pages[j]
             merged_page ==
                 [page EXCEPT !.page_number = page_offset + page.page_number,
                              !.text_annotations =
                                  ReassignIds(page.text_annotations, bbox_id_counter)]
         IN  <<merged_page>>
             \o MergePages(chunk_pages, j + 1, page_offset,
                           bbox_id_counter + Len(page.text_annotations))

\* number of annotations on the pages of one chunk
RECURSIVE CountAnnotations(_, _)
CountAnnotations(chunk_pages, j) ==
    IF j > Len(chunk_pages) THEN 0
    ELSE Len(chunk_pages[j].text_annotations) + CountAnnotations(chunk_pages, j + 1)

MergeImages(chunk_images, page_offset) ==
    [k \in 1..Len(chunk_images) |->
        [chunk_images[k] EXCEPT !.page_number = page_offset + chunk_images[k].page_number]]

\* full text: chunks joined by a blank line, empty chunk texts skipped
MergeText(merged_text, chunk_text) ==
    IF chunk_text = <<>> THEN merged_text
    ELSE IF merged_text = <<>> THEN chunk_text
    ELSE merged_text \o <<"\n\n">> \o chunk_text

\* the chunk loop of merge_extracted_data, from chunk i on
RECURSIVE MergeChunks(_, _, _, _, _)
MergeChunks(chunks_data, i, page_offset, bbox_id_counter, merged) ==
    IF i > Len(chunks_data) THEN merged
    ELSE LET chunk_data == chunks_data[i]
         IN  MergeChunks(chunks_data, i + 1,
                 NextPageOffset(page_offset, chunk_data.pages),
                 bbox_id_counter + CountAnnotations(chunk_data.pages, 1),
                 [err |-> "none",
                  full_text |-> MergeText(merged.full_text, chunk_data.full_text),
                  pages |-> merged.pages
                            \o MergePages(chunk_data.pages, 1, page_offset, bbox_id_counter),
                  images |-> merged.images \o MergeImages(chunk_data.images, page_offset)])

\* merge_extracted_data(chunks_data)
merge_extracted_data(chunks_data) ==
    IF chunks_data = <<>>
    THEN [err |-> "ValueError", full_text |-> <<>>, pages |-> <<>>, images |-> <<>>]
    ELSE MergeChunks(chunks_data, 1, 0, 1,
                     [err |-> "none", full_text |-> <<>>, pages |-> <<>>, images |-> <<>>])

NoMerge == [err |-> "pending", full_text |-> <<>>, pages |-> <<>>, images |-> <<>>]

\* the state of the other parts while the utilities run
MergeIdle ==
    /\ mPc = "idle"
    /\ mPdf = [pages |-> <<>>, original |-> TRUE]
    /\ mChunkSize = 0
    /\ mBlocks = <<>>
    /\ mImgs = {}
    /\ mChunks = <<>>
    /\ mData = <<>>
    /\ mOut = NoMerge

\* an uploaded PDF of 1..MaxPages pages, a chunk size, and the layout of its pages
MergeInit ==
    /\ mPc = "start"
    /\ \E n \in 1..MaxPages :
          /\ mPdf = [pages |-> [i \in 1..n |-> i], original |-> TRUE]
          /\ mBlocks \in [1..n -> 0..MaxBlocks]
          /\ mImgs \in SUBSET (1..n)
    /\ mChunkSize \in 1..MaxChunkSize
    /\ mChunks = <<>>
    /\ mData = <<>>
    /\ mOut = NoMerge

DoSplit ==
    /\ mPc = "start"
    /\ mChunks' = split_pdf(mPdf, mChunkSize)
    /\ mPc' = "split"
    /\ UNCHANGED <<mPdf, mChunkSize, mBlocks, mImgs, mData, mOut>>

DoExtract ==
    /\ mPc = "split"
    /\ mData' = [i \in 1..Len(mChunks) |-> extract_text_with_boxes(mChunks[i], mBlocks, mImgs)]
    /\ mPc' = "extracted"
    /\ UNCHANGED <<mPdf, mChunkSize, mBlocks, mImgs, mChunks, mOut>>

DoMerge ==
    /\ mPc = "extracted"
    /\ mOut' = merge_extracted_data(mData)
    /\ mPc' = "merged"
    /\ UNCHANGED <<mPdf, mChunkSize, mBlocks, mImgs, mChunks, mData>>

\* merge_extracted_data([]): a call with no chunk at all
DoMergeEmpty ==
    /\ mPc = "start"
    /\ mOut' = merge_extracted_data(<<>>)
    /\ mPc' = "merged"
    /\ UNCHANGED <<mPdf, mChunkSize, mBlocks, mImgs, mChunks, mData>>

MergeNext ==
    \/ DoSplit /\ UNCHANGED exceptMerge
    \/ DoExtract /\ UNCHANGED exceptMerge
    \/ DoMerge /\ UNCHANGED exceptMerge
    \/ DoMergeEmpty /\ UNCHANGED exceptMerge

(***************************************************************************)
(* Bounding-box combiner: services/bbox_combiner.py                        *)
(*                                                                         *)
(* A text is a sequence of characters; a bounding box is its list of       *)
(* vertices; an annotation without a page_number carries NoPage.           *)
(***************************************************************************)

\* largest number of pages and of annotations in a document drawn
MaxCombPages == 2
MaxCombAnns == 4

\* default of the max_area_threshold parameter
MaxAreaThreshold == 100000

\* ann.get('page_number') is None
NoPage == 0

Rect(x0, y0, x1, y1) ==
    <<[x |-> x0, y |-> y0], [x |-> x1, y |-> y0], [x |-> x1, y |-> y1], [x |-> x0, y |-> y1]>>

SeqMin(q) == CHOOSE v \in {q[i] : i \in 1..Len(q)} : \A i \in 1..Len(q) : v <= q[i]
SeqMax(q) == CHOOSE v \in {q[i] : i \in 1..Len(q)} : \A i \in 1..Len(q) : v >= q[i]

\* get_bbox_bounds: (min_x, min_y, max_x, max_y), all zero without vertices
get_bbox_bounds(bbox) ==
    IF Len(bbox) = 0 THEN <<0, 0, 0, 0>>
    ELSE LET xs == [i \in 1..Len(bbox) |-> bbox[i].x]
             ys == [i \in 1..Len(bbox) |-> bbox[i].y]
         IN  <<SeqMin(xs), SeqMin(ys), SeqMax(xs), SeqMax(ys)>>

\* get_bbox_area: width * height of the bounds
get_bbox_area(bbox) ==
    LET b == get_bbox_bounds(bbox) IN (b[3] - b[1]) * (b[4] - b[2])

\* combine_bboxes: the bounding box of one annotation as it is; of several,
\* the rectangle spanning the bounds of all of them
combine_bboxes(annotations) ==
    IF Len(annotations) = 0 THEN <<>>
    ELSE IF Len(annotations) = 1 THEN annotations[1].bounding_box
    ELSE LET bounds == [i \in 1..Len(annotations) |->
                            get_bbox_bounds(annotations[i].bounding_box)]
         IN  Rect(SeqMin([i \in 1..Len(bounds) |-> bounds[i][1]]),
                  SeqMin([i \in 1..Len(bounds) |-> bounds[i][2]]),
                  SeqMax([i \in 1..Len(bounds) |-> bounds[i][3]]),
                  SeqMax([i \in 1..Len(bounds) |-> bounds[i][4]]))

\* str.strip() for texts whose only whitespace is the space character
RECURSIVE PyStrip(_)
PyStrip(text) ==
    IF Len(text) = 0 THEN text
    ELSE IF text[1] = " " THEN PyStrip(Tail(text))
    ELSE IF text[Len(text)] = " " THEN PyStrip(SubSeq(text, 1, Len(text) - 1))
    ELSE text

\* ' '.join(texts)
RECURSIVE JoinWithSpace(_)
JoinWithSpace(texts) ==
    IF Len(texts) = 0 THEN <<>>
    ELSE IF Len(texts) = 1 THEN texts[1]
    ELSE texts[1] \o <<" ">> \o JoinWithSpace(Tail(texts))

\* the stripped texts of the annotations, the empty ones left out
RECURSIVE StrippedTexts(_)
StrippedTexts(text_annotations) ==
    IF Len(text_annotations) = 0 THEN <<>>
    ELSE LET text == PyStrip(text_annotations[1].text)
         IN  (IF Len(text) > 0 THEN <<text>> ELSE <<>>)
             \o StrippedTexts(Tail(text_annotations))

\* combine_text_annotations
combine_text_annotations(text_annotations) == JoinWithSpace(StrippedTexts(text_annotations))

\* the combined annotation built from a sequence of two or more
CombinedAnnotation(current_sequence, expected_page_number) ==
    LET first_box == current_sequence[1]
    IN  [id |-> first_box.id,
         text |-> combine_text_annotations(current_sequence),
         bounding_box |-> combine_bboxes(current_sequence),
         type |-> first_box.type,
         classification |-> first_box.classification,
         confidence |-> first_box.confidence,
         explanation |-> first_box.explanation,
         page_number |-> expected_page_number]

\* what a pending sequence contributes to combined_annotations when it is
\* closed by a large box or by the end of the page
FlushSequence(current_sequence, expected_page_number) ==
    IF Len(current_sequence) = 0 THEN <<>>
    ELSE IF Len(current_sequence) = 1 THEN current_sequence
    ELSE LET sequence_page_numbers ==
                 {current_sequence[i].page_number : i \in 1..Len(current_sequence)}
                 \ {NoPage}
         IN  IF Cardinality(sequence_page_numbers) > 1
             THEN current_sequence
             ELSE <<CombinedAnnotation(current_sequence, expected_page_number)>>

\* the loop over one page's annotations, from annotation k on
RECURSIVE CombineLoop(_, _, _, _, _, _)
CombineLoop(text_annotations, k, expected_page_number, max_area_threshold, combined_annotations, current_sequence) ==
    IF k > Len(text_annotations)
    THEN combined_annotations \o FlushSequence(current_sequence, expected_page_number)
    ELSE LET ann == text_annotations[k]
         IN  IF ann.page_number # NoPage /\ ann.page_number # expected_page_number
             THEN \* `continue`: the annotation is skipped
                  CombineLoop(text_annotations, k + 1, expected_page_number,
                              max_area_threshold, combined_annotations, current_sequence)
             ELSE IF get_bbox_area(ann.bounding_box) <= max_area_threshold
             THEN CombineLoop(text_annotations, k + 1, expected_page_number,
                              max_area_threshold, combined_annotations,
                              Append(current_sequence, ann))
             ELSE CombineLoop(text_annotations, k + 1, expected_page_number,
                              max_area_threshold,
                              combined_annotations
                                  \o FlushSequence(current_sequence, expected_page_number)
                                  \o <<ann>>,
                              <<>>)

\* one iteration of the page loop: the page with its annotations combined
CombinePage(page_data, max_area_threshold) ==
    IF Len(page_data.text_annotations) = 0 THEN page_data
    ELSE [page_data EXCEPT !.text_annotations =
              CombineLoop(page_data.text_annotations, 1, page_data.page_number,
                          max_area_threshold, <<>>, <<>>)]

\* the annotations of pages p.. as one list
RECURSIVE AllAnnotations(_, _)
AllAnnotations(pages, p) ==
    IF p > Len(pages) THEN <<>>
    ELSE pages[p].text_annotations \o AllAnnotations(pages, p + 1)

\* a combiner that flattens the pages: the annotations of all pages combined
\* as one list, kept on the first page
combine_bounding_boxes_flat(extracted_data, max_area_threshold) ==
    [pages |-> [p \in 1..Len(extracted_data.pages) |->
        [extracted_data.pages[p] EXCEPT !.text_annotations =
            IF p = 1
            THEN CombineLoop(AllAnnotations(extracted_data.pages, 1), 1,
                             extracted_data.pages[1].page_number,
                             max_area_threshold, <<>>, <<>>)
            ELSE <<>>]]]

\* combine_bounding_boxes(extracted_data, max_area_threshold=...)
combine_bounding_boxes(extracted_data, max_area_threshold) ==
    [pages |-> [p \in 1..Len(extracted_data.pages) |->
                   CombinePage(extracted_data.pages[p], max_area_threshold)]]

\* the annotations a document is drawn from: text, bounding box, page_number
\* and classification.  Areas: 100, 200, exactly the threshold, 150000.
AnnotationKinds ==
    {[text |-> <<"a">>, bounding_box |-> Rect(0, 0, 10, 10),
      page_number |-> NoPage, classification |-> "public"],
     [text |-> <<" ", "b">>, bounding_box |-> Rect(20, 5, 40, 15),
      page_number |-> NoPage, classification |-> ""],
     [text |-> <<" ">>, bounding_box |-> Rect(0, 0, 1000, 100),
      page_number |-> NoPage, classification |-> ""],
     [text |-> <<"c">>, bounding_box |-> Rect(0, 0, 500, 300),
      page_number |-> NoPage, classification |-> ""],
     [text |-> <<"d">>, bounding_box |-> Rect(0, 20, 10, 30),
      page_number |-> 2, classification |-> ""]}

\* the annotation of kind `kind` that is the n-th block of its document
MakeAnnotation(kind, n) ==
    [id |-> PyStr(n), text |-> kind.text, bounding_box |-> kind.bounding_box,
     type |-> "block", classification |-> kind.classification,
     confidence |-> "", explanation |-> "", page_number |-> kind.page_number]

\* the document whose pages hold the annotations flat[cuts[p-1]+1 .. cuts[p]]
MakeDocument(flat, cuts) ==
    [pages |-> [p \in 1..Len(cuts) |->
        [page_number |-> p,
         text_annotations |->
            LET from == IF p = 1 THEN 0 ELSE cuts[p - 1]
            IN  [k \in 1..(cuts[p] - from) |-> MakeAnnotation(flat[from + k], from + k)]]]]

NoDocument == [pages |-> <<>>]

CombineIdle ==
    /\ cPc = "idle"
    /\ cIn = NoDocument
    /\ cOut = NoDocument

\* every document of 1..MaxCombPages pages and at most MaxCombAnns annotations
CombineInit ==
    /\ cPc = "start"
    /\ \E t \in 0..MaxCombAnns, np \in 1..MaxCombPages :
          \E flat \in [1..t -> AnnotationKinds], cuts \in [1..np -> 0..t] :
              /\ cuts[np] = t
              /\ \A p \in 1..(np - 1) : cuts[p] <= cuts[p + 1]
              /\ cIn = MakeDocument(flat, cuts)
    /\ cOut = NoDocument

DoCombine ==
    /\ cPc = "start"
    /\ cOut' = combine_bounding_boxes(cIn, MaxAreaThreshold)
    /\ cPc' = "done"
    /\ UNCHANGED cIn

CombineNext ==
    \/ DoCombine /\ UNCHANGED exceptCombine

(***************************************************************************)
(* Parse route: routes/parse.py, POST /parse/parse-pdf                     *)
(*                                                                         *)
(* One request is served at a time, in the steps of upload_and_process_pdf.*)
(* An error detail is the sequence of its parts.  pRaised is the first     *)
(* exception a step of the request raised; pResp is the answer sent.       *)
(***************************************************************************)

\* how many parse requests one run of the model serves
MaxParseReqs == 2

\* MAX_PAGES_PER_CHUNK
MAX_PAGES_PER_CHUNK == 15

\* file.filename: missing, not a PDF by its name, two PDFs
ParseFilenames == {"", "a.txt", "a.pdf", "b.pdf"}

\* page counts of the uploaded PDF: up to the chunk size, and beyond it
PageCounts == {1, MAX_PAGES_PER_CHUNK, MAX_PAGES_PER_CHUNK + 1}

\* what the layout service does with one chunk: answers, rejects it for its
\* page count (InvalidArgument, PAGE_LIMIT_EXCEEDED), or fails otherwise
ChunkOutcomes == {"ok", "page_limit", "error"}

ParseRequests ==
    [filename : ParseFilenames, processor : BOOLEAN, readable : BOOLEAN,
     pages : PageCounts]

NoRequest == [filename |-> "", processor |-> FALSE, readable |-> FALSE, pages |-> 0]
NoException == [kind |-> "none", status_code |-> 0, detail |-> <<>>]
NoResponse == [status_code |-> 0, detail |-> <<>>, pdf_file_id |-> 0]

\* raise HTTPException(status_code=..., detail=...)
HTTPException(status_code, detail) ==
    [kind |-> "HTTPException", status_code |-> status_code, detail |-> detail]

\* any other exception, with its message
OtherException(message) == [kind |-> "Exception", status_code |-> 0, detail |-> message]

\* the answer FastAPI sends for an HTTPException that leaves the handler
ErrorResponse(e) == [status_code |-> e.status_code, detail |-> e.detail, pdf_file_id |-> 0]

\* the handler's outer `except HTTPException: raise` / `except Exception`
TopLevel(e) ==
    IF e.kind = "HTTPException" THEN e
    ELSE HTTPException(500, <<"Error processing PDF: ">> \o e.detail)

\* process_pdf_chunk: what it raises for an outcome of the layout service
process_pdf_chunk_raises(outcome, chunk_index) ==
    IF outcome = "page_limit"
    THEN HTTPException(400, <<"PDF chunk exceeds processing limit even after splitting",
                              PyStr(chunk_index + 1)>>)
    ELSE OtherException(<<"layout service failed">>)

\* the chunk loop's `except Exception as chunk_error`
ChunkLoopHandler(chunk_error, chunk_idx) ==
    HTTPException(500, <<"Error processing PDF chunk ", PyStr(chunk_idx + 1), ": ">>
                       \o chunk_error.detail)

\* the temporary directory left where it is
CleanupTempDir_skipped == pTempDir' = pTempDir

\* `finally`: shutil.rmtree(temp_dir, ignore_errors=True)
CleanupTempDir == pTempDir' = FALSE

\* the handler ends with exception e at the top level: the answer is sent and
\* `finally` removes the temporary directory
ParseFail(raised, e) ==
    /\ pRaised' = raised
    /\ pResp' = ErrorResponse(TopLevel(e))
    /\ CleanupTempDir
    /\ pPc' = "done"

\* a request that fails validation: no filename, not a .pdf name, no processor
ParseInvalid(req) ==
    /\ pPc \in {"idle", "done"}
    /\ nParse < MaxParseReqs
    /\ req.filename = "" \/ req.filename \notin {"a.pdf", "b.pdf"} \/ ~req.processor
    /\ nParse' = nParse + 1
    /\ pReq' = req
    /\ LET e == IF req.filename = "" THEN HTTPException(400, <<"Filename is required">>)
                ELSE IF req.filename \notin {"a.pdf", "b.pdf"}
                THEN HTTPException(400, <<"File must be a PDF">>)
                ELSE HTTPException(400, <<"Processor name not provided">>)
       IN  ParseFail(e, e)
    /\ UNCHANGED <<pChunks, pChunkIdx, pFileId, bbDocs, imgDocs, bgTasks, storeVars>>

\* a valid request whose file is saved to a new temporary directory, and then
\* get_pdf_page_count or get_document_ai_client raises
ParseUnreadable(req, client_ok) ==
    /\ pPc \in {"idle", "done"}
    /\ nParse < MaxParseReqs
    /\ req.filename \in {"a.pdf", "b.pdf"} /\ req.processor
    /\ ~req.readable \/ ~client_ok
    /\ nParse' = nParse + 1
    /\ pReq' = req
    /\ LET e == IF ~req.readable THEN HTTPException(400, <<"Invalid PDF file">>)
                ELSE HTTPException(500, <<"GOOGLE_APPLICATION_CREDENTIALS not configured">>)
       IN  ParseFail(e, e)
    /\ UNCHANGED <<pChunks, pChunkIdx, pFileId, bbDocs, imgDocs, bgTasks, storeVars>>

\* a valid request up to the choice of the path: the chunks to process are
\* those of split_pdf beyond MAX_PAGES_PER_CHUNK pages, else the PDF itself
ParseAccept(req) ==
    /\ pPc \in {"idle", "done"}
    /\ nParse < MaxParseReqs
    /\ req.filename \in {"a.pdf", "b.pdf"} /\ req.processor /\ req.readable
    /\ nParse' = nParse + 1
    /\ pReq' = req
    /\ pTempDir' = TRUE
    /\ LET pdf_content == [pages |-> [i \in 1..req.pages |-> i], original |-> TRUE]
       IN  pChunks' = IF req.pages > MAX_PAGES_PER_CHUNK
                      THEN split_pdf(pdf_content, MAX_PAGES_PER_CHUNK)
                      ELSE <<pdf_content>>
    /\ pChunkIdx' = 0
    /\ pRaised' = NoException
    /\ pResp' = NoResponse
    /\ pFileId' = 0
    /\ pPc' = "process"
    /\ UNCHANGED <<bbDocs, imgDocs, bgTasks, storeVars>>

\* split path: one iteration of the chunk loop; after the last chunk the
\* chunks are merged
ParseChunk(outcome) ==
    /\ pPc = "process"
    /\ pReq.pages > MAX_PAGES_PER_CHUNK
    /\ IF outcome = "ok"
       THEN /\ pChunkIdx' = pChunkIdx + 1
            /\ pPc' = IF pChunkIdx + 1 = Len(pChunks) THEN "store_pdf" ELSE "process"
            /\ UNCHANGED <<pRaised, pResp, pTempDir>>
       ELSE /\ LET chunk_error == process_pdf_chunk_raises(outcome, pChunkIdx)
               IN  ParseFail(chunk_error, ChunkLoopHandler(chunk_error, pChunkIdx))
            /\ UNCHANGED pChunkIdx
    /\ UNCHANGED <<pReq, pChunks, pFileId, bbDocs, imgDocs, bgTasks, nParse, storeVars>>

\* single path: the whole PDF in one request to the layout service
ParseSingle(outcome) ==
    /\ pPc = "process"
    /\ pReq.pages <= MAX_PAGES_PER_CHUNK
    /\ IF outcome = "ok"
       THEN /\ pChunkIdx' = pChunkIdx + 1
            /\ pPc' = "store_pdf"
            /\ UNCHANGED <<pRaised, pResp, pTempDir>>
       ELSE /\ LET docai_error == process_pdf_chunk_raises(outcome, 0)
               IN  ParseFail(docai_error, docai_error)
            /\ UNCHANGED pChunkIdx
    /\ UNCHANGED <<pReq, pChunks, pFileId, bbDocs, imgDocs, bgTasks, nParse, storeVars>>

\* upload_file_to_gridfs stores the PDF
ParseStorePdf(content) ==
    /\ pPc = "store_pdf"
    /\ upload_file_to_gridfs(pReq.filename, content)
    /\ pFileId' = nextId
    /\ pPc' = "store_boxes"
    /\ UNCHANGED <<pReq, pChunks, pChunkIdx, pRaised, pResp, pTempDir, bbDocs, imgDocs,
                   bgTasks, nParse>>

\* upload_file_to_gridfs raises
ParseStorePdfFails ==
    /\ pPc = "store_pdf"
    /\ upload_file_to_gridfs_put_fails(pReq.filename)
    /\ LET e == OtherException(<<"gridfs put failed">>) IN ParseFail(e, e)
    /\ UNCHANGED <<pReq, pChunks, pChunkIdx, pFileId, bbDocs, imgDocs, bgTasks, nParse>>

\* upload_bounding_boxes: update_one(..., upsert=True) by filename, or a
\* database error
ParseStoreBoxes(db_ok) ==
    /\ pPc = "store_boxes"
    /\ IF db_ok
       THEN /\ bbDocs' = {d \in bbDocs : d.filename # pReq.filename}
                         \cup {[filename |-> pReq.filename, pdf_file_id |-> pFileId,
                                total_pages |-> pReq.pages]}
            /\ pPc' = "images"
            /\ UNCHANGED <<pRaised, pResp, pTempDir>>
       ELSE /\ LET e == OtherException(<<"database error">>) IN ParseFail(e, e)
            /\ UNCHANGED bbDocs
    /\ UNCHANGED <<pReq, pChunks, pChunkIdx, pFileId, imgDocs, bgTasks, nParse, storeVars>>

\* the image step (no image, images stored, or an error, which is logged and
\* dropped) and the 201 answer; `finally` removes the temporary directory
ParseRespond(images) ==
    /\ pPc = "images"
    /\ imgDocs' = IF images = "stored"
                  THEN {d \in imgDocs : d.filename # pReq.filename}
                       \cup {[filename |-> pReq.filename, pdf_file_id |-> pFileId]}
                  ELSE imgDocs
    /\ pResp' = [status_code |-> 201, detail |-> <<>>, pdf_file_id |-> pFileId]
    /\ CleanupTempDir
    /\ pPc' = "done"
    /\ UNCHANGED <<pReq, pChunks, pChunkIdx, pRaised, pFileId, bbDocs, bgTasks, nParse,
                   storeVars>>

ParseIdle ==
    /\ pPc = "idle"
    /\ pReq = NoRequest
    /\ pChunks = <<>>
    /\ pChunkIdx = 0
    /\ pRaised = NoException
    /\ pResp = NoResponse
    /\ pTempDir = FALSE
    /\ pFileId = 0
    /\ bbDocs = {}
    /\ imgDocs = {}
    /\ bgTasks = <<>>
    /\ nParse = 0

ParseNext ==
    \/ \E req \in ParseRequests :
          ParseInvalid(req) /\ UNCHANGED exceptParse
    \/ \E req \in ParseRequests, client_ok \in BOOLEAN :
          ParseUnreadable(req, client_ok) /\ UNCHANGED exceptParse
    \/ \E req \in ParseRequests :
          ParseAccept(req) /\ UNCHANGED exceptParse
    \/ \E outcome \in ChunkOutcomes :
          ParseChunk(outcome) /\ UNCHANGED exceptParse
    \/ \E outcome \in ChunkOutcomes :
          ParseSingle(outcome) /\ UNCHANGED exceptParse
    \/ \E content \in Contents :
          ParseStorePdf(content) /\ UNCHANGED exceptParse
    \/ ParseStorePdfFails /\ UNCHANGED exceptParse
    \/ \E db_ok \in BOOLEAN :
          ParseStoreBoxes(db_ok) /\ UNCHANGED exceptParse
    \/ \E images \in {"none", "stored", "failed"} :
          ParseRespond(images) /\ UNCHANGED exceptParse

(***************************************************************************)
(* One classification run: services/top_agent.py, ToP_Agent.run,           *)
(* pick_chain and run_chain                                                *)
(*                                                                         *)
(* A model response is the sequence of its characters.  The run is taken   *)
(* step by step, a step ending where the run waits for the model, so that  *)
(* chain edits served meanwhile fall between its reads of the chain.       *)
(***************************************************************************)

\* longest response to the category-picking prompt drawn
MaxRespLen == 4

\* characters of a response: a letter, a digit within [0,3], a digit beyond,
\* a minus sign, and white space
RespChars == {"x", "3", "4", "-", " "}

Responses == UNION {[1..n -> RespChars] : n \in 0..MaxRespLen}

\* responses of the runs that chain edits interleave with: "3", and the
\* empty response (category 2 by default)
RunResponses == {<<"3">>, <<>>}

\* str.split(): the maximal runs of non-blank characters, from character i on
RECURSIVE PySplitFrom(_, _, _)
PySplitFrom(text, i, word) ==
    IF i > Len(text) THEN (IF word = <<>> THEN <<>> ELSE <<word>>)
    ELSE IF text[i] = " "
    THEN (IF word = <<>> THEN <<>> ELSE <<word>>) \o PySplitFrom(text, i + 1, <<>>)
    ELSE PySplitFrom(text, i + 1, Append(word, text[i]))

PySplit(text) == PySplitFrom(text, 1, <<>>)

IsDigitChar(ch) == \E d \in 0..9 : Digit(d) = ch

\* str.isdigit(): not empty, every character a digit
PyIsDigit(word) == Len(word) > 0 /\ \A i \in 1..Len(word) : IsDigitChar(word[i])

\* the number a string of digits denotes
RECURSIVE DigitsValue(_)
DigitsValue(word) ==
    IF Len(word) = 0 THEN 0
    ELSE DigitsValue(SubSeq(word, 1, Len(word) - 1)) * 10
         + (CHOOSE d \in 0..9 : Digit(d) = word[Len(word)])

\* int(word): digits, after an optional minus sign; otherwise ValueError
PyIntOk(word) ==
    IF Len(word) > 0 /\ word[1] = "-" THEN PyIsDigit(Tail(word)) ELSE PyIsDigit(word)

PyInt(word) ==
    IF word[1] = "-" THEN 0 - DigitsValue(Tail(word)) ELSE DigitsValue(word)

\* the loop of pick_chain over the words, from word i on: the first word of
\* digits whose value is within [0,3]; -1 when the loop ends without a return
RECURSIVE FirstCategoryWord(_, _)
FirstCategoryWord(words, i) ==
    IF i > Len(words) THEN -1
    ELSE IF PyIsDigit(words[i]) /\ 0 <= PyInt(words[i]) /\ PyInt(words[i]) <= 3
    THEN PyInt(words[i])
    ELSE FirstCategoryWord(words, i + 1)

\* pick_chain: the value returned for the model's response
pick_chain(response) ==
    LET words == PySplit(response)
        found == FirstCategoryWord(words, 1)
    IN  IF found # -1 THEN found
        ELSE IF Len(words) < 2 THEN 2            \* IndexError
        ELSE IF ~PyIntOk(words[2]) THEN 2        \* ValueError
        ELSE PyInt(words[2])

\* self.tree[classification]: the tree is a Python list of four chains
TreeIndexValid(classification) == -4 <= classification /\ classification <= 3
TreeAt(classification) ==
    tree[IF classification < 0 THEN classification + 4 ELSE classification]

\* self.tree[classification][index] raises IndexError
ChainReadFails == ~TreeIndexValid(rClass) \/ rIndex >= Len(TreeAt(rClass))

\* run, up to the first call of run_chain: pick_chain has its answer
RunPick(response) ==
    /\ rPc = "idle"
    /\ rResp' = response
    /\ rClass' = pick_chain(response)
    /\ rIndex' = 0
    /\ rSteps' = <<>>
    /\ rOutcome' = "running"
    /\ rPc' = "prompt"

\* run_chain builds the prompt from self.tree[classification][index] and
\* sends it to the model
RunPrompt ==
    /\ rPc = "prompt"
    /\ IF ChainReadFails
       THEN /\ rOutcome' = "IndexError"
            /\ rPc' = "done"
            /\ UNCHANGED <<rSteps, rIndex>>
       ELSE /\ rSteps' = Append(rSteps, TreeAt(rClass)[rIndex + 1])
            /\ rPc' = "llm"
            /\ UNCHANGED <<rOutcome, rIndex>>
    /\ UNCHANGED <<rResp, rClass>>

\* the model has answered (or failed): run_chain reads the instruction again
\* for the results, then compares index with the chain's length
RunAfterLlm(llm_ok) ==
    /\ rPc = "llm"
    /\ IF ~llm_ok
       THEN /\ rOutcome' = "LlmError"
            /\ rPc' = "done"
            /\ UNCHANGED rIndex
       ELSE IF ChainReadFails
       THEN /\ rOutcome' = "IndexError"
            /\ rPc' = "done"
            /\ UNCHANGED rIndex
       ELSE IF rIndex = Len(TreeAt(rClass)) - 1
       THEN /\ rOutcome' = "returned"
            /\ rPc' = "done"
            /\ UNCHANGED rIndex
       ELSE /\ rIndex' = rIndex + 1
            /\ rPc' = "prompt"
            /\ UNCHANGED rOutcome
    /\ UNCHANGED <<rResp, rClass, rSteps>>

RunIdle ==
    /\ rPc = "idle"
    /\ rResp = <<>>
    /\ rClass = 0
    /\ rIndex = 0
    /\ rSteps = <<>>
    /\ rOutcome = "none"

\* runs for every response, the chains at rest
PickNext ==
    \/ \E response \in Responses : RunPick(response) /\ UNCHANGED exceptRun
    \/ RunPrompt /\ UNCHANGED exceptRun
    \/ \E llm_ok \in BOOLEAN : RunAfterLlm(llm_ok) /\ UNCHANGED exceptRun

\* categories and positions of the chain edits served during a run; the
\* positions are those of ordinary instructions, never of the closing one
RunEditTrees == {2, 3}
RunEditIndexes == {0, 1}

\* a run, with chain-edit requests served at any point of it
RunNext ==
    \/ \E response \in RunResponses : RunPick(response) /\ UNCHANGED exceptRun
    \/ RunPrompt /\ UNCHANGED exceptRun
    \/ \E llm_ok \in BOOLEAN : RunAfterLlm(llm_ok) /\ UNCHANGED exceptRun
    \/ \E ti \in RunEditTrees, llm \in LlmTexts :
          ai_chain_edit(ti, llm) /\ UNCHANGED exceptChain
    \/ \E ti \in RunEditTrees, ci \in RunEditIndexes, t \in NewTexts :
          human_chain_edit(ti, ci, t) /\ UNCHANGED exceptChain
    \/ \E ti \in RunEditTrees, t \in NewTexts :
          human_chain_add(ti, t) /\ UNCHANGED exceptChain
    \/ \E ti \in RunEditTrees, ci \in RunEditIndexes :
          human_chain_remove(ti, ci) /\ UNCHANGED exceptChain

(***************************************************************************)
(* Image safety classifier: services/vision.py,                            *)
(* batch_classify_images_safe_search                                       *)
(*                                                                         *)
(* Images are numbered 1..n.  The service's behaviour is given with the    *)
(* input: the batched calls that throw, and at most one image whose        *)
(* request cannot be built or whose response carries an error.             *)
(***************************************************************************)

\* largest small image count drawn (counts beyond one batch are in ImageCounts)
MaxImages == 3

\* the service's limit on the images of one call
VISION_BATCH_LIMIT == 16

ImageCounts == (0..MaxImages) \cup {VISION_BATCH_LIMIT + 1, 2 * VISION_BATCH_LIMIT + 1}

\* values of the batch_size argument
BatchSizes == {-1, 0, 1, 2, VISION_BATCH_LIMIT, VISION_BATCH_LIMIT + 1, 50}

\* `if batch_size > 16: batch_size = 16`
CappedBatchSize(batch_size) ==
    IF batch_size > VISION_BATCH_LIMIT THEN VISION_BATCH_LIMIT ELSE batch_size

\* range(0, total_images, batch_size) for a positive step: the batch starts
BatchStarts(total_images, batch_size) ==
    {b \in 0..(total_images - 1) : b % batch_size = 0}

\* parse_safe_search_result for image i of the input
ImageResult(i, bad) ==
    IF bad.image = i /\ bad.kind = "request"
    THEN [kind |-> "error", of |-> i, error |-> "Failed to process image"]
    ELSE IF bad.image = i /\ bad.kind = "response"
    THEN [kind |-> "error", of |-> i, error |-> "response.error.message"]
    ELSE [kind |-> "annotation", of |-> i, error |-> ""]

\* the images of a batch for which a request could be built
BatchRequests(batch_start, batch_end, bad) ==
    {i \in (batch_start + 1)..batch_end : ~(bad.image = i /\ bad.kind = "request")}

\* the results one iteration of the batch loop appends: those of the images,
\* or one batch-level error per image when the batched call throws
BatchResults(batch_start, batch_end, batch_num, throwing, bad) ==
    IF BatchRequests(batch_start, batch_end, bad) # {} /\ batch_num \in throwing
    THEN [k \in 1..(batch_end - batch_start) |->
             [kind |-> "error", of |-> 0, error |-> "Batch processing error"]]
    ELSE [k \in 1..(batch_end - batch_start) |-> ImageResult(batch_start + k, bad)]

\* the batch loop from batch_start on
RECURSIVE BatchLoop(_, _, _, _, _)
BatchLoop(total_images, batch_size, batch_start, throwing, bad) ==
    IF batch_start >= total_images THEN [results |-> <<>>, calls |-> <<>>]
    ELSE LET batch_end == Min(batch_start + batch_size, total_images)
             batch_num == (batch_start \div batch_size) + 1
             rest == BatchLoop(total_images, batch_size, batch_end, throwing, bad)
             sent == BatchRequests(batch_start, batch_end, bad)
         IN  [results |-> BatchResults(batch_start, batch_end, batch_num, throwing, bad)
                          \o rest.results,
              calls |-> (IF sent # {} THEN <<sent>> ELSE <<>>) \o rest.calls]

\* batch_classify_images_safe_search(image_contents, vision_client, batch_size):
\* range() raises ValueError for a step of 0 and is empty for a negative step
batch_classify_images_safe_search(total_images, requested, throwing, bad) ==
    LET batch_size == CappedBatchSize(requested)
    IN  IF batch_size = 0
        THEN [raised |-> "ValueError", results |-> <<>>, calls |-> <<>>]
        ELSE IF batch_size < 0
        THEN [raised |-> "none", results |-> <<>>, calls |-> <<>>]
        ELSE LET out == BatchLoop(total_images, batch_size, 0, throwing, bad)
             IN  [raised |-> "none", results |-> out.results, calls |-> out.calls]

\* number of batches of a call, none for a step that is not positive
BatchCount(total_images, requested) ==
    IF CappedBatchSize(requested) <= 0 THEN 0
    ELSE Cardinality(BatchStarts(total_images, CappedBatchSize(requested)))

NoImages == [total_images |-> 0, batch_size |-> 0, throwing |-> {},
             bad |-> [image |-> 0, kind |-> "none"]]
NoResults == [raised |-> "pending", results |-> <<>>, calls |-> <<>>]

VisionIdle ==
    /\ vPc = "idle"
    /\ vIn = NoImages
    /\ vOut = NoResults

\* every image count and batch size, with at most two throwing calls and at
\* most one image in error
VisionInit ==
    /\ vPc = "start"
    /\ \E n \in ImageCounts, bs \in BatchSizes :
          LET nb == BatchCount(n, bs)
          IN  \E a \in 0..nb, b \in 0..nb, i \in 0..Min(n, MaxImages),
                 kind \in {"request", "response"} :
                  /\ a <= b
                  /\ vIn = [total_images |-> n, batch_size |-> bs,
                            throwing |-> {a, b} \ {0},
                            bad |-> [image |-> i, kind |-> IF i = 0 THEN "none" ELSE kind]]
    /\ vOut = NoResults

DoClassifyImages ==
    /\ vPc = "start"
    /\ vOut' = batch_classify_images_safe_search(vIn.total_images, vIn.batch_size,
                                                 vIn.throwing, vIn.bad)
    /\ vPc' = "done"
    /\ UNCHANGED vIn

VisionNext ==
    \/ DoClassifyImages /\ UNCHANGED exceptVision

(***************************************************************************)
(* Reading the agent's answer: services/bbox_classification.py,            *)
(* parse_top_agent_response                                                *)
(*                                                                         *)
(* A response text is a sequence of characters in which the words          *)
(* "Classification", "Confidence" and "Explanation" are one element each.  *)
(* An agent result maps the numbers N of its response_N keys to texts.     *)
(***************************************************************************)

\* longest number written after "Confidence"
MaxNumLen == 3

CATEGORY_NAMES == <<"sensitive", "confidential", "public", "unsafe">>

Whitespace == {" "}
DigitChars == {Digit(d) : d \in 0..9}
NumberChars == DigitChars \cup {"."}

\* the last index of the longest run of characters of `chars` starting at q
\* (q - 1 when there is none): what a greedy \s*, \d+ or [\d.]+ consumes
SpanEnd(text, q, chars) ==
    CHOOSE e \in (q - 1)..Len(text) :
        /\ \A j \in q..e : text[j] \in chars
        /\ e = Len(text) \/ text[e + 1] \notin chars

NoMatch == [matched |-> FALSE, group |-> <<>>]

\* re.search(r"Classification:\s*(\d+)", text, re.IGNORECASE)
SearchClassification(text) ==
    LET Start(p) == SpanEnd(text, p + 2, Whitespace) + 1
        hits == {p \in 1..(Len(text) - 1) :
                    /\ text[p] = "Classification"
                    /\ text[p + 1] = ":"
                    /\ SpanEnd(text, Start(p), DigitChars) >= Start(p)}
    IN  IF hits = {} THEN NoMatch
        ELSE LET p == CHOOSE h \in hits : \A g \in hits : h <= g
             IN  [matched |-> TRUE,
                  group |-> SubSeq(text, Start(p), SpanEnd(text, Start(p), DigitChars))]

\* re.search(r"Confidence:\s*([\d.]+)", ...) when colon_first, otherwise
\* re.search(r"Confidence[:\s]+([\d.]+)", ...)
SearchConfidence(text, colon_first) ==
    LET Start(p) == IF colon_first THEN SpanEnd(text, p + 2, Whitespace) + 1
                    ELSE SpanEnd(text, p + 1, Whitespace \cup {":"}) + 1
        hits == {p \in 1..(Len(text) - 1) :
                    /\ text[p] = "Confidence"
                    /\ IF colon_first THEN text[p + 1] = ":" ELSE Start(p) > p + 1
                    /\ SpanEnd(text, Start(p), NumberChars) >= Start(p)}
    IN  IF hits = {} THEN NoMatch
        ELSE LET p == CHOOSE h \in hits : \A g \in hits : h <= g
             IN  [matched |-> TRUE,
                  group |-> SubSeq(text, Start(p), SpanEnd(text, Start(p), NumberChars))]

\* the digits of a string of digits and dots, the dots left out
RECURSIVE DigitsOf(_)
DigitsOf(group) ==
    IF Len(group) = 0 THEN <<>>
    ELSE (IF group[1] = "." THEN <<>> ELSE <<group[1]>>) \o DigitsOf(Tail(group))

RECURSIVE PowerOfTen(_)
PowerOfTen(n) == IF n = 0 THEN 1 ELSE 10 * PowerOfTen(n - 1)

\* float(group) of a string of digits and dots succeeds when it has at most
\* one dot and at least one digit
PyFloatOk(group) ==
    /\ Cardinality({i \in 1..Len(group) : group[i] = "."}) <= 1
    /\ Len(DigitsOf(group)) > 0

\* float(group) as the fraction num / den
PyFloat(group) ==
    LET dots == {i \in 1..Len(group) : group[i] = "."}
        decimals == IF dots = {} THEN 0
                    ELSE Len(group) - (CHOOSE i \in dots : TRUE)
    IN  [num |-> DigitsValue(DigitsOf(group)), den |-> PowerOfTen(decimals)]

Zero == [num |-> 0, den |-> 1]
One == [num |-> 1, den |-> 1]

\* the confidence taken as it was written
ClampConfidence_none(confidence) == confidence

\* max(0.0, min(1.0, confidence))
ClampConfidence(confidence) ==
    IF confidence.num > confidence.den THEN One
    ELSE IF confidence.num < 0 THEN Zero
    ELSE confidence

\* the category named by the first response
ParseClassification(first_response) ==
    LET classification_match == SearchClassification(first_response)
    IN  IF first_response = <<>> THEN "public"
        ELSE IF classification_match.matched
        THEN LET category_num == DigitsValue(classification_match.group)
             IN  IF 0 <= category_num /\ category_num <= 3
                 THEN CATEGORY_NAMES[category_num + 1] ELSE "public"
        ELSE LET category_num == FirstCategoryWord(PySplit(first_response), 1)
             IN  IF category_num = -1 THEN "public" ELSE CATEGORY_NAMES[category_num + 1]

\* the confidence read from the last response
ParseConfidence(last_response) ==
    LET first_try == SearchConfidence(last_response, TRUE)
        second_try == SearchConfidence(last_response, FALSE)
        confidence_match == IF first_try.matched THEN first_try ELSE second_try
    IN  IF confidence_match.matched /\ PyFloatOk(confidence_match.group)
        THEN ClampConfidence(PyFloat(confidence_match.group))
        ELSE Zero

\* the explanation read from the last response: the text after the first
\* "Explanation:", stripped (the texts modelled have no line break)
ParseExplanation(last_response) ==
    LET hits == {p \in 1..(Len(last_response) - 1) :
                    last_response[p] = "Explanation" /\ last_response[p + 1] = ":"}
    IN  IF hits = {} THEN <<>>
        ELSE LET p == CHOOSE h \in hits : \A g \in hits : h <= g
             IN  PyStrip(SubSeq(last_response, p + 2, Len(last_response)))

\* max(response_nums)
MaxKey(response_nums) == CHOOSE n \in response_nums : \A k \in response_nums : k <= n

\* response.get(key, "")
GetResponse(response, n) == IF n \in DOMAIN response THEN response[n] ELSE <<>>

\* parse_top_agent_response(response)
parse_top_agent_response(response) ==
    IF DOMAIN response = {}
    THEN [classification |-> "public", confidence |-> Zero, explanation |-> <<>>]
    ELSE LET last_response == GetResponse(response, MaxKey(DOMAIN response))
         IN  [classification |-> ParseClassification(GetResponse(response, 0)),
              confidence |-> IF last_response = <<>> THEN Zero
                             ELSE ParseConfidence(last_response),
              explanation |-> IF last_response = <<>> THEN <<>>
                              ELSE ParseExplanation(last_response)]

\* the numbers written in the texts drawn, two reported values among them
NumChars == {"-", ".", "1", "5"}
Numbers ==
    UNION {[1..n -> NumChars] : n \in 0..MaxNumLen}
        \cup {<<"-", "0", ".", "3">>, <<"0", ".", "3">>}

ConfidenceHeads ==
    {<<>>, <<"Confidence", ":">>, <<"Confidence", ":", " ">>, <<"Confidence", " ">>}
ExplanationTails == {<<>>, <<" ", "Explanation", ":", " ", "e", " ">>}
LastResponses == {h \o n \o t : h \in ConfidenceHeads, n \in Numbers, t \in ExplanationTails}

ClassificationHeads == {<<>>, <<"Classification", ":", " ">>}
ClassificationBodies ==
    {<<>>, <<"3">>, <<"4">>, <<"1", "2">>, <<"x">>, <<"x", " ", "1">>,
     <<"0", " ", "Confidence", ":", "1", ".", "5">>}
FirstResponses == {h \o b : h \in ClassificationHeads, b \in ClassificationBodies}

\* the response of a step that is neither the first nor the last
MiddleResponse == <<"Yes", " ", "Confidence", ":", " ", ".", "5">>

\* the response numbers of an agent result: none for a failed block
KeySets == {{}, {0}, {0, 1}, {1}, {0, 2, 10}}

AgentResult(keys, first, last) ==
    [n \in keys |-> IF n = 0 THEN first ELSE IF n = MaxKey(keys) THEN last
                    ELSE MiddleResponse]

NoAgentResult == [n \in {} |-> <<>>]
NoParsed == [classification |-> "pending", confidence |-> Zero, explanation |-> <<>>]

AgentIdle ==
    /\ aPc = "idle"
    /\ aIn = NoAgentResult
    /\ aOut = NoParsed

AgentInit ==
    /\ aPc = "start"
    /\ \E keys \in KeySets, first \in FirstResponses, last \in LastResponses :
          aIn = AgentResult(keys, first, last)
    /\ aOut = NoParsed

DoParseResponse ==
    /\ aPc = "start"
    /\ aOut' = parse_top_agent_response(aIn)
    /\ aPc' = "done"
    /\ UNCHANGED aIn

AgentNext ==
    \/ DoParseResponse /\ UNCHANGED exceptAgent

(***************************************************************************)
(* Classifying the stored boxes: services/bbox_classification.py,          *)
(* classify_bounding_boxes, with ToP_Agent.run_doc collecting the results  *)
(* of its worker pool as the blocks complete                               *)
(***************************************************************************)

\* most boxes of a stored document
MaxBoxes == 3

\* a stored box: `id` is empty when the box has no identifier
Box(id, text) ==
    [id |-> id, text |-> text, classification |-> "none", confidence |-> Zero,
     explanation |-> <<>>]

\* the boxes a document is drawn from, for the k-th box of the document:
\* empty text, blank text, two texts the agent tells apart, no identifier
BoxesAt(k) ==
    {Box(PyStr(k), <<>>), Box(PyStr(k), <<" ">>), Box(PyStr(k), <<"s", " ">>),
     Box(PyStr(k), <<"u">>), Box(<<>>, <<"s">>)}

\* the documents of the bounding_boxes collection: up to MaxBoxes boxes on
\* one page, or on two pages with the first box alone on the first
StoredDocuments ==
    UNION {{<<boxes>> : boxes \in {f \in [1..n -> UNION {BoxesAt(k) : k \in 1..n}] :
                                      \A k \in 1..n : f[k] \in BoxesAt(k)}}
           \cup {<<SubSeq(boxes, 1, 1), SubSeq(boxes, 2, n)>> :
                    boxes \in {f \in [1..n -> UNION {BoxesAt(k) : k \in 1..n}] :
                                  n >= 2 /\ \A k \in 1..n : f[k] \in BoxesAt(k)}}
           : n \in 0..MaxBoxes}

\* every box taken for classification
CollectBox_any(bbox_id, bbox_text) == TRUE

\* `if bbox_text and bbox_id`
CollectBox(bbox_id, bbox_text) == bbox_text # <<>> /\ bbox_id # <<>>

\* the boxes of one page that are collected, with their metadata
RECURSIVE CollectPage(_, _, _)
CollectPage(bounding_boxes, page_idx, b) ==
    IF b > Len(bounding_boxes) THEN <<>>
    ELSE LET bbox == bounding_boxes[b]
             bbox_text == PyStrip(bbox.text)
         IN  (IF CollectBox(bbox.id, bbox_text)
              THEN <<[page_index |-> page_idx, bbox_id |-> bbox.id, text |-> bbox_text]>>
              ELSE <<>>)
             \o CollectPage(bounding_boxes, page_idx, b + 1)

\* bbox_texts and bbox_metadata, entry by entry; page_idx counts from 0
RECURSIVE CollectBoxes(_, _)
CollectBoxes(pages, p) ==
    IF p > Len(pages) THEN <<>>
    ELSE CollectPage(pages[p], p - 1, 1) \o CollectBoxes(pages, p + 1)

\* what ToP_Agent.run returns for a block: two responses that depend on its text
AgentAnswer(text) ==
    IF text = <<"s">>
    THEN AgentResult({0, 1}, <<"Classification", ":", " ", "0">>,
                     <<"Confidence", ":", " ", "1", " ", "Explanation", ":", " ", "s">>)
    ELSE AgentResult({0, 1}, <<"Classification", ":", " ", "3">>,
                     <<"Confidence", ":", " ", ".", "5", " ", "Explanation", ":", " ", "u">>)

\* the entry run_doc appends to block_results when block i completes
BlockResult(i, text, ok) ==
    [of |-> i, error |-> ~ok, response |-> IF ok THEN AgentAnswer(text) ELSE NoAgentResult]

\* the classification built from result `result` for the box described by metadata
Classification(metadata, result) ==
    IF result.error
    THEN [page_index |-> metadata.page_index, bbox_id |-> metadata.bbox_id,
          classification |-> "public", confidence |-> Zero, explanation |-> <<>>]
    ELSE LET parsed == parse_top_agent_response(result.response)
         IN  [page_index |-> metadata.page_index, bbox_id |-> metadata.bbox_id,
              classification |-> parsed.classification,
              confidence |-> parsed.confidence,
              explanation |-> parsed.explanation]

\* `for i, result in enumerate(results)`: result i goes with metadata i
Classifications(bbox_metadata, results) ==
    [i \in 1..Min(Len(results), Len(bbox_metadata)) |->
        Classification(bbox_metadata[i], results[i])]

\* the classifications written by identifier alone, whatever the page
UpdatedPages_anyPage(pages, classifications) ==
    [p \in 1..Len(pages) |->
        [b \in 1..Len(pages[p]) |->
            LET bbox == pages[p][b]
                hits == {i \in 1..Len(classifications) :
                            classifications[i].bbox_id = bbox.id}
            IN  IF bbox.id = <<>> \/ hits = {} THEN bbox
                ELSE LET cls_data == classifications[CHOOSE i \in hits :
                                                        \A j \in hits : j <= i]
                     IN  [bbox EXCEPT !.classification = cls_data.classification,
                                      !.confidence = cls_data.confidence,
                                      !.explanation = cls_data.explanation]]]

\* update_bounding_box_classifications: the pages with the classifications
\* written to the boxes whose (page index, id) has one; the last one wins
UpdatedPages(pages, classifications) ==
    [p \in 1..Len(pages) |->
        [b \in 1..Len(pages[p]) |->
            LET bbox == pages[p][b]
                hits == {i \in 1..Len(classifications) :
                            /\ classifications[i].page_index = p - 1
                            /\ classifications[i].bbox_id = bbox.id}
            IN  IF bbox.id = <<>> \/ hits = {} THEN bbox
                ELSE LET cls_data == classifications[CHOOSE i \in hits :
                                                        \A j \in hits : j <= i]
                     IN  [bbox EXCEPT !.classification = cls_data.classification,
                                      !.confidence = cls_data.confidence,
                                      !.explanation = cls_data.explanation]]]

\* the dictionary classify_bounding_boxes returns (failed_count is 0 where the
\* code leaves the key out)
ClassifyReturn(success, error, classified_count, failed_count, total_count) ==
    [success |-> success, error |-> error, classified_count |-> classified_count,
     failed_count |-> failed_count, total_count |-> total_count]

NoReturn == ClassifyReturn(FALSE, "pending", 0, 0, 0)

ClassifyIdle ==
    /\ kPc = "idle"
    /\ kDoc0 = <<>>
    /\ kStored = <<>>
    /\ kMeta = <<>>
    /\ kPending = {}
    /\ kResults = <<>>
    /\ kRet = NoReturn
    /\ kAgentCalls = 0

ClassifyInit ==
    /\ kPc = "start"
    /\ kDoc0 \in StoredDocuments
    /\ kStored = kDoc0
    /\ kMeta = <<>>
    /\ kPending = {}
    /\ kResults = <<>>
    /\ kRet = NoReturn
    /\ kAgentCalls = 0

\* get_bounding_boxes_by_file_id finds no document, or the database fails
ClassifyNotFound ==
    /\ kPc = "start"
    /\ kRet' = ClassifyReturn(FALSE, "Could not retrieve bounding boxes", 0, 0, 0)
    /\ kPc' = "done"
    /\ UNCHANGED <<kDoc0, kStored, kMeta, kPending, kResults, kAgentCalls>>

\* the document is read and its boxes collected: nothing to classify, or
\* run_doc is called and submits every block to the pool
ClassifyCollect ==
    /\ kPc = "start"
    /\ kMeta' = CollectBoxes(kStored, 1)
    /\ IF kMeta' = <<>>
       THEN /\ kRet' = ClassifyReturn(TRUE, "", 0, 0, 0)
            /\ kPc' = "done"
            /\ UNCHANGED <<kPending, kAgentCalls>>
       ELSE /\ kPending' = 1..Len(kMeta')
            /\ kAgentCalls' = kAgentCalls + 1
            /\ kPc' = "running"
            /\ UNCHANGED kRet
    /\ UNCHANGED <<kDoc0, kStored, kResults>>

\* as_completed yields the future of block i, which returned or raised
BlockCompletes(i, ok) ==
    /\ kPc = "running"
    /\ i \in kPending
    /\ kResults' = Append(kResults, BlockResult(i, kMeta[i].text, ok))
    /\ kPending' = kPending \ {i}
    /\ UNCHANGED <<kPc, kDoc0, kStored, kMeta, kRet, kAgentCalls>>

\* run_doc returns; the results are paired with the metadata by position and
\* written to the document
ClassifyFinish(db_ok) ==
    /\ kPc = "running"
    /\ kPending = {}
    /\ LET classifications == Classifications(kMeta, kResults)
           successful_count == Cardinality({i \in 1..Len(kResults) : ~kResults[i].error})
           failed_count == Cardinality({i \in 1..Len(kResults) : kResults[i].error})
           pages == UpdatedPages(kStored, classifications)
           update_success == db_ok /\ pages # kStored
       IN  /\ kStored' = IF db_ok THEN pages ELSE kStored
           /\ kRet' = IF update_success
                      THEN ClassifyReturn(TRUE, "", successful_count, failed_count,
                                          Len(kMeta))
                      ELSE ClassifyReturn(FALSE, "Failed to update database",
                                          successful_count, failed_count, Len(kMeta))
    /\ kPc' = "done"
    /\ UNCHANGED <<kDoc0, kMeta, kPending, kResults, kAgentCalls>>

ClassifyNext ==
    \/ ClassifyNotFound /\ UNCHANGED exceptClassify
    \/ ClassifyCollect /\ UNCHANGED exceptClassify
    \/ \E i \in 1..(MaxBoxes + 1), ok \in BOOLEAN : BlockCompletes(i, ok) /\ UNCHANGED exceptClassify
    \/ \E db_ok \in BOOLEAN : ClassifyFinish(db_ok) /\ UNCHANGED exceptClassify

(***************************************************************************)
(* The first response read twice: by ToP_Agent.pick_chain, which chooses   *)
(* the chain, and by parse_top_agent_response, which names the category    *)
(***************************************************************************)

\* longest first response drawn
MaxLabelLen == 4

LabelChars == {"Classification", ":", " ", "1", "3", "x"}
LabelResponses == UNION {[1..n -> LabelChars] : n \in 0..MaxLabelLen}

LabelIdle ==
    /\ lPc = "idle"
    /\ lResp = <<>>
    /\ lPick = 0
    /\ lName = "pending"

LabelInit ==
    /\ lPc = "start"
    /\ lResp \in LabelResponses
    /\ lPick = 0
    /\ lName = "pending"

\* run stores the response as response_0 and walks the chain pick_chain
\* returned; later the category name is parsed from response_0
DoLabel ==
    /\ lPc = "start"
    /\ lPick' = pick_chain(lResp)
    /\ lName' = parse_top_agent_response(AgentResult({0}, lResp, lResp)).classification
    /\ lPc' = "done"
    /\ UNCHANGED lResp

LabelNext ==
    \/ DoLabel /\ UNCHANGED exceptLabel

(***************************************************************************)
(* The worker pool of ToP_Agent.run_doc: services/top_agent.py             *)
(***************************************************************************)

\* most blocks handed to run_doc
MaxDocBlocks == 3

DEFAULT_MAX_WORKERS == 20

\* TOP_AGENT_MAX_WORKERS in the environment: not set, or a string
EnvValues ==
    {[set |-> FALSE, value |-> <<>>]}
        \cup {[set |-> TRUE, value |-> v] :
                 v \in {<<"0">>, <<"-", "5">>, <<"x">>, <<>>, <<"1">>, <<"2">>, <<"2", "0">>}}

\* os.getenv("TOP_AGENT_MAX_WORKERS", "20")
GetEnvMaxWorkers(env) == IF env.set THEN env.value ELSE PyStr(DEFAULT_MAX_WORKERS)

\* the configured value taken as it is when it is a number
MAX_WORKERS_unchecked(env) ==
    IF PyIntOk(GetEnvMaxWorkers(env)) THEN PyInt(GetEnvMaxWorkers(env))
    ELSE DEFAULT_MAX_WORKERS

\* MAX_WORKERS as the module computes it at import
MAX_WORKERS(env) ==
    IF ~PyIntOk(GetEnvMaxWorkers(env)) THEN DEFAULT_MAX_WORKERS
    ELSE IF PyInt(GetEnvMaxWorkers(env)) < 1 THEN DEFAULT_MAX_WORKERS
    ELSE PyInt(GetEnvMaxWorkers(env))

\* the entry appended to block_results for block i
DocResult(i, threw) == [of |-> i, error |-> threw]

PoolIdle ==
    /\ wPc = "idle"
    /\ wEnv = [set |-> FALSE, value |-> <<>>]
    /\ wMax = 0
    /\ wBlocks = 0
    /\ wQueued = {}
    /\ wRunning = {}
    /\ wThrew = {}
    /\ wResults = <<>>

\* the module is imported with some environment; run_doc has not been called
PoolInit ==
    /\ wPc = "ready"
    /\ wEnv \in EnvValues
    /\ wMax = MAX_WORKERS(wEnv)
    /\ wBlocks = 0
    /\ wQueued = {}
    /\ wRunning = {}
    /\ wThrew = {}
    /\ wResults = <<>>

\* run_doc(blocks): every block is submitted to the executor
RunDocSubmit(n) ==
    /\ wPc = "ready"
    /\ wBlocks' = n
    /\ wQueued' = 1..n
    /\ wPc' = "collecting"
    /\ UNCHANGED <<wEnv, wMax, wRunning, wThrew, wResults>>

\* an idle worker of the pool takes the oldest queued block
WorkerTakes ==
    /\ wPc = "collecting"
    /\ wQueued # {}
    /\ Cardinality(wRunning) < wMax
    /\ LET i == CHOOSE q \in wQueued : \A r \in wQueued : q <= r
       IN  /\ wQueued' = wQueued \ {i}
           /\ wRunning' = wRunning \cup {i}
    /\ UNCHANGED <<wPc, wEnv, wMax, wBlocks, wThrew, wResults>>

\* self.run(block) returns or raises; as_completed yields its future and the
\* result or the error record is appended
WorkerFinishes(i, threw) ==
    /\ wPc = "collecting"
    /\ i \in wRunning
    /\ wRunning' = wRunning \ {i}
    /\ wThrew' = IF threw THEN wThrew \cup {i} ELSE wThrew
    /\ wResults' = Append(wResults, DocResult(i, threw))
    /\ UNCHANGED <<wPc, wEnv, wMax, wBlocks, wQueued>>

\* every future has completed: run_doc returns block_results
RunDocReturns ==
    /\ wPc = "collecting"
    /\ wQueued = {}
    /\ wRunning = {}
    /\ wPc' = "done"
    /\ UNCHANGED <<wEnv, wMax, wBlocks, wQueued, wRunning, wThrew, wResults>>

PoolNext ==
    \/ \E n \in 0..MaxDocBlocks : RunDocSubmit(n) /\ UNCHANGED exceptPool
    \/ WorkerTakes /\ UNCHANGED exceptPool
    \/ \E i \in 1..(MaxDocBlocks + 1), threw \in BOOLEAN : WorkerFinishes(i, threw) /\ UNCHANGED exceptPool
    \/ RunDocReturns /\ UNCHANGED exceptPool

(***************************************************************************)
(* Writing classifications back: services/bbox_classification.py,          *)
(* update_bounding_box_classifications                                     *)
(***************************************************************************)

\* one entry of the classifications list
ClassificationEntry(page_index, bbox_id, classification) ==
    [page_index |-> page_index, bbox_id |-> bbox_id, classification |-> classification,
     confidence |-> IF classification = "none" THEN Zero ELSE One,
     explanation |-> IF classification = "none" THEN <<>> ELSE <<"e">>]

\* the entries drawn: for box "1" of the first page (one of them repeating
\* what a stored box already holds), for box "2" of the second page, and for
\* identifiers and pages the document may not have
ClassificationEntries ==
    {ClassificationEntry(0, <<"1">>, "unsafe"), ClassificationEntry(0, <<"1">>, "none"),
     ClassificationEntry(1, <<"2">>, "sensitive"), ClassificationEntry(1, <<"1">>, "public"),
     ClassificationEntry(0, <<"9">>, "public")}

ClassificationLists ==
    {<<>>} \cup {<<c>> : c \in ClassificationEntries}
           \cup {<<c, d>> : c, d \in ClassificationEntries}

\* update_bounding_box_classifications(pdf_file_id, classifications) on the
\* stored pages: the value returned, the pages stored afterwards, and whether
\* update_one was called
update_bounding_box_classifications(found, pages, classifications, db_ok) ==
    LET new_pages == UpdatedPages(pages, classifications)
        updated == \E p \in 1..Len(pages) : \E b \in 1..Len(pages[p]) :
                       /\ pages[p][b].id # <<>>
                       /\ \E i \in 1..Len(classifications) :
                             /\ classifications[i].page_index = p - 1
                             /\ classifications[i].bbox_id = pages[p][b].id
    IN  IF ~found THEN [ret |-> FALSE, pages |-> pages, update_one |-> FALSE]
        ELSE IF ~updated THEN [ret |-> FALSE, pages |-> pages, update_one |-> FALSE]
        ELSE IF ~db_ok THEN [ret |-> FALSE, pages |-> pages, update_one |-> TRUE]
        ELSE [ret |-> new_pages # pages, pages |-> new_pages, update_one |-> TRUE]

UpdateIdle ==
    /\ uPc = "idle"
    /\ uDoc0 = <<>>
    /\ uStored = <<>>
    /\ uFound = FALSE
    /\ uCls = <<>>
    /\ uRet = FALSE
    /\ uWrites = 0

UpdateInit ==
    /\ uPc = "start"
    /\ uDoc0 \in StoredDocuments
    /\ uStored = uDoc0
    /\ uFound \in BOOLEAN
    /\ uCls \in ClassificationLists
    /\ uRet = FALSE
    /\ uWrites = 0

DoUpdate(db_ok) ==
    /\ uPc = "start"
    /\ LET out == update_bounding_box_classifications(uFound, uStored, uCls, db_ok)
       IN  /\ uRet' = out.ret
           /\ uStored' = out.pages
           /\ uWrites' = IF out.update_one THEN uWrites + 1 ELSE uWrites
    /\ uPc' = "done"
    /\ UNCHANGED <<uDoc0, uFound, uCls>>

UpdateNext ==
    \/ \E db_ok \in BOOLEAN : DoUpdate(db_ok) /\ UNCHANGED exceptUpdate

(***************************************************************************)
(* Agent construction: services/top_agent.py, ToP_Agent._load_chains       *)
(*                                                                         *)
(* The chain file is absent, is not JSON, is JSON but not an object, or is *)
(* an object in which each category key is missing, holds a list of        *)
(* instructions, or holds a value that is no list.                         *)
(***************************************************************************)

ListValue(chain) == [kind |-> "list", chain |-> chain]
MissingKey == [kind |-> "missing", chain |-> <<>>]
StringValue == [kind |-> "string", chain |-> <<>>]

\* the values a category key of the file may hold
KeyValues(c) == {ListValue(<<"new", Closing(c)>>), MissingKey, StringValue}

NoKeys == [c \in Categories |-> MissingKey]

FileObjects == {f \in [Categories -> UNION {KeyValues(c) : c \in Categories}] :
                   \A c \in Categories : f[c] \in KeyValues(c)}

ChainFiles ==
    {[kind |-> k, keys |-> NoKeys] : k \in {"absent", "not_json", "not_object"}}
        \cup {[kind |-> "object", keys |-> f] : f \in FileObjects}

\* _get_default_chains, as the values the agent holds
DefaultValues == [c \in Categories |-> ListValue(DefaultChains[c])]

\* chains_data.get(key, default): the value under the key, whatever it is
GetChain(chains_data, c) ==
    IF chains_data[c].kind = "missing" THEN DefaultValues[c] ELSE chains_data[c]

\* _load_chains: the chains the agent holds and the file afterwards
LoadChains(file) ==
    IF file.kind = "absent"
    THEN [tree |-> DefaultValues, file |-> [kind |-> "object", keys |-> DefaultValues]]
    ELSE IF file.kind \in {"not_json", "not_object"}
    THEN [tree |-> DefaultValues, file |-> file]
    ELSE [tree |-> [c \in Categories |-> GetChain(file.keys, c)], file |-> file]

LoadIdle ==
    /\ gPc = "idle"
    /\ gFile0 = [kind |-> "absent", keys |-> NoKeys]
    /\ gFile = gFile0
    /\ gTree = DefaultValues

LoadInit ==
    /\ gPc = "start"
    /\ gFile0 \in ChainFiles
    /\ gFile = gFile0
    /\ gTree = [c \in Categories |-> MissingKey]

\* ToP_Agent.__init__: self._load_chains()
ConstructAgent ==
    /\ gPc = "start"
    /\ gTree' = LoadChains(gFile).tree
    /\ gFile' = LoadChains(gFile).file
    /\ gPc' = "done"
    /\ UNCHANGED gFile0

LoadNext ==
    \/ ConstructAgent /\ UNCHANGED exceptLoad

(***************************************************************************)
(* Database handles: services/database.py and database.py                  *)
(*                                                                         *)
(* Each of the two modules keeps its own globals client, db and fs.  A     *)
(* client is a number, 0 is None; the handles db and fs are named by the   *)
(* client they were made from.                                             *)
(***************************************************************************)

MaxDbCalls == 6

\* what a ping of a freshly made client may do
PingOutcomes == {"ok", "ConnectionFailure", "OperationFailure"}

DbCall(op, caller, exc, handles, cached, opened) ==
    [op |-> op, caller |-> caller, exc |-> exc, handles |-> handles,
     cached |-> cached, opened |-> opened]

NoDbCall == DbCall("none", "none", "none", 0, FALSE, FALSE)

\* services/database.py get_database: the globals afterwards, the clients
\* open afterwards, and what the caller gets
services_get_database(caller, ping) ==
    IF svcClient # 0
    THEN [client |-> svcClient, handles |-> svcHandles, open |-> openClients,
          opened |-> nOpened,
          call |-> DbCall("get", caller, "none", svcHandles, TRUE, FALSE)]
    ELSE IF ~dbCreds
    THEN [client |-> 0, handles |-> svcHandles, open |-> openClients,
          opened |-> nOpened,
          call |-> DbCall("get", caller, "ValueError", 0, FALSE, FALSE)]
    ELSE IF ping = "ok"
    THEN [client |-> nOpened + 1, handles |-> nOpened + 1,
          open |-> openClients \cup {nOpened + 1}, opened |-> nOpened + 1,
          call |-> DbCall("get", caller, "none", nOpened + 1, FALSE, TRUE)]
    ELSE \* the failed client is closed and client is None again; db and fs
         \* keep naming it.  Anything but a connection error is re-raised
         [client |-> 0, handles |-> nOpened + 1, open |-> openClients,
          opened |-> nOpened + 1,
          call |-> DbCall("get", caller, ping, 0, FALSE, TRUE)]

ServicesGetDatabase(caller, ping) ==
    /\ svcClient' = services_get_database(caller, ping).client
    /\ svcHandles' = services_get_database(caller, ping).handles
    /\ openClients' = services_get_database(caller, ping).open
    /\ nOpened' = services_get_database(caller, ping).opened
    /\ dbLast' = services_get_database(caller, ping).call
    /\ dbFailed' = (dbFailed \/ services_get_database(caller, ping).call.exc # "none")
    /\ UNCHANGED <<apiClient, apiHandles>>

\* services/database.py close_database
ServicesCloseDatabase(caller) ==
    /\ openClients' = openClients \ {svcClient}
    /\ svcClient' = 0
    /\ dbLast' = DbCall("close", caller, "none", 0, svcClient # 0, FALSE)
    /\ UNCHANGED <<svcHandles, apiClient, apiHandles, nOpened, dbFailed>>

\* database.py get_database: no credentials check and no ping
ApiGetDatabase(caller) ==
    /\ IF apiClient # 0
       THEN /\ dbLast' = DbCall("get", caller, "none", apiHandles, TRUE, FALSE)
            /\ UNCHANGED <<apiClient, apiHandles, openClients, nOpened>>
       ELSE /\ apiClient' = nOpened + 1
            /\ apiHandles' = nOpened + 1
            /\ openClients' = openClients \cup {nOpened + 1}
            /\ nOpened' = nOpened + 1
            /\ dbLast' = DbCall("get", caller, "none", nOpened + 1, FALSE, TRUE)
    /\ UNCHANGED <<svcClient, svcHandles, dbFailed>>

DbIdle ==
    /\ svcClient = 0
    /\ svcHandles = 0
    /\ apiClient = 0
    /\ apiHandles = 0
    /\ openClients = {}
    /\ nOpened = 0
    /\ dbCreds = TRUE
    /\ dbLast = NoDbCall
    /\ dbCalls = 0
    /\ dbVerify = "pending"
    /\ dbDown = FALSE
    /\ dbFailed = FALSE

\* the modules as imported: MONGODB_USER and MONGODB_PASS set or not
DbInit ==
    /\ svcClient = 0
    /\ svcHandles = 0
    /\ apiClient = 0
    /\ apiHandles = 0
    /\ openClients = {}
    /\ nOpened = 0
    /\ dbCreds \in BOOLEAN
    /\ dbLast = NoDbCall
    /\ dbCalls = 0
    /\ dbVerify = "pending"
    /\ dbDown = FALSE
    /\ dbFailed = FALSE

\* any caller of services.database.get_database
GetDatabase(ping) ==
    /\ dbCalls < MaxDbCalls
    /\ dbCalls' = dbCalls + 1
    /\ ServicesGetDatabase("caller", ping)
    /\ UNCHANGED <<dbCreds, dbVerify, dbDown>>

\* any caller of services.database.close_database
CloseDatabase ==
    /\ dbCalls < MaxDbCalls
    /\ dbCalls' = dbCalls + 1
    /\ ServicesCloseDatabase("caller")
    /\ UNCHANGED <<dbCreds, dbVerify, dbDown>>

DatabaseNext ==
    \/ \E ping \in PingOutcomes : GetDatabase(ping) /\ UNCHANGED exceptDb
    \/ CloseDatabase /\ UNCHANGED exceptDb

\* a view route: db, fs = get_database() of database.py
ViewRoute ==
    /\ ~dbDown
    /\ dbCalls < MaxDbCalls
    /\ dbCalls' = dbCalls + 1
    /\ ApiGetDatabase("view")
    /\ UNCHANGED <<dbCreds, dbVerify, dbDown>>

\* upload_file_to_gridfs / upload_bounding_boxes: get_database() of database.py
UploadStorage ==
    /\ ~dbDown
    /\ dbCalls < MaxDbCalls
    /\ dbCalls' = dbCalls + 1
    /\ ApiGetDatabase("upload")
    /\ UNCHANGED <<dbCreds, dbVerify, dbDown>>

\* upload_images_from_pdf: get_database() of services/database.py
ImageStorage(ping) ==
    /\ ~dbDown
    /\ dbCalls < MaxDbCalls
    /\ dbCalls' = dbCalls + 1
    /\ ServicesGetDatabase("images", ping)
    /\ UNCHANGED <<dbCreds, dbVerify, dbDown>>

\* get_bounding_boxes_by_file_id / update_bounding_box_classifications:
\* get_database() of services/database.py
ClassificationPipeline(ping) ==
    /\ ~dbDown
    /\ dbCalls < MaxDbCalls
    /\ dbCalls' = dbCalls + 1
    /\ ServicesGetDatabase("classification", ping)
    /\ UNCHANGED <<dbCreds, dbVerify, dbDown>>

\* lifespan startup task: verify_connection makes a test client of its own,
\* pings it and closes it; a failing ping leaves it unclosed
VerifyConnection(ping) ==
    /\ ~dbDown
    /\ dbVerify = "pending"
    /\ dbVerify' = "done"
    /\ IF ~dbCreds
       THEN /\ dbFailed' = TRUE
            /\ UNCHANGED <<openClients, nOpened>>
       ELSE /\ nOpened' = nOpened + 1
            /\ openClients' = IF ping = "ok" THEN openClients
                              ELSE openClients \cup {nOpened + 1}
            /\ dbFailed' = (dbFailed \/ ping # "ok")
    /\ UNCHANGED <<svcClient, svcHandles, apiClient, apiHandles, dbCreds,
                   dbLast, dbCalls, dbDown>>

\* lifespan shutdown: close_database() of services/database.py
Shutdown ==
    /\ ~dbDown
    /\ dbDown' = TRUE
    /\ ServicesCloseDatabase("lifespan")
    /\ UNCHANGED <<dbCreds, dbCalls, dbVerify>>

ProcessNext ==
    \/ ViewRoute /\ UNCHANGED exceptDb
    \/ UploadStorage /\ UNCHANGED exceptDb
    \/ \E ping \in PingOutcomes : ImageStorage(ping) /\ UNCHANGED exceptDb
    \/ \E ping \in PingOutcomes : ClassificationPipeline(ping) /\ UNCHANGED exceptDb
    \/ \E ping \in PingOutcomes : VerifyConnection(ping) /\ UNCHANGED exceptDb
    \/ Shutdown /\ UNCHANGED exceptDb

(***************************************************************************)
(* A filename parsed again while classification runs are under way:        *)
(* routes/parse.py upload_and_process_pdf, routes/upload.py                *)
(* upload_bounding_boxes, services/bbox_classification.py                  *)
(*                                                                         *)
(* One filename, so one document of the bounding_boxes collection.  Each   *)
(* parse request stores the file (a fresh file id) and then the boxes; a   *)
(* classification run for a file id reads the document, classifies, reads  *)
(* the document again and writes its pages, each as a step of its own.     *)
(***************************************************************************)

MaxRaceUploads == 2

\* the pages a parse request extracts
RacePages ==
    {<<<<Box(<<"1">>, <<"s">>)>>>>,
     <<<<Box(<<"1">>, <<"u">>)>>>>,
     <<<<Box(<<"1">>, <<"u">>)>>, <<Box(<<"2">>, <<"s">>)>>>>}

RaceDocument(pdf_file_id, pages) == [pdf_file_id |-> pdf_file_id, pages |-> pages]

NoRaceDocument == RaceDocument(0, <<>>)

RaceRun(pc, classifications, pages, missed) ==
    [pc |-> pc, classifications |-> classifications, pages |-> pages, missed |-> missed]

NoRaceRun == RaceRun("idle", <<>>, <<>>, FALSE)

RaceRequest(pc, file_id, pages) == [pc |-> pc, file_id |-> file_id, pages |-> pages]

\* the document matched whatever file id it holds
MatchesFileId_anyDocument(doc, pdf_file_id) == doc.pdf_file_id # 0

\* the filter {'pdf_file_id': pdf_file_id} of find_one and update_one
MatchesFileId(doc, pdf_file_id) == doc.pdf_file_id = pdf_file_id

\* classify_bounding_boxes up to the classifications: every block answered
RunClassifications(pages) ==
    LET bbox_metadata == CollectBoxes(pages, 1)
        results == [i \in 1..Len(bbox_metadata) |->
                       BlockResult(i, bbox_metadata[i].text, TRUE)]
    IN  Classifications(bbox_metadata, results)

RaceIdle ==
    /\ xDoc = NoRaceDocument
    /\ xNextId = 1
    /\ xReq = RaceRequest("idle", 0, <<>>)
    /\ xRuns = [id \in 1..MaxRaceUploads |-> NoRaceRun]
    /\ xUploaded = NoRaceDocument
    /\ xWriters = {}

RaceInit ==
    /\ xDoc = NoRaceDocument
    /\ xNextId = 1
    /\ xReq = RaceRequest("idle", 0, <<>>)
    /\ xRuns = [id \in 1..MaxRaceUploads |-> NoRaceRun]
    /\ xUploaded = NoRaceDocument
    /\ xWriters = {}

\* upload_and_process_pdf: upload_file_to_gridfs gives the file a fresh id
ParseStoresFile(pages) ==
    /\ xReq.pc = "idle"
    /\ xNextId <= MaxRaceUploads
    /\ xReq' = RaceRequest("stored", xNextId, pages)
    /\ xNextId' = xNextId + 1
    /\ UNCHANGED <<xDoc, xRuns, xUploaded, xWriters>>

\* upload_bounding_boxes: update_one({'filename': filename}, {'$set': doc},
\* upsert=True) sets pdf_file_id and pages together
ParseStoresBoxes ==
    /\ xReq.pc = "stored"
    /\ xDoc' = RaceDocument(xReq.file_id, xReq.pages)
    /\ xUploaded' = RaceDocument(xReq.file_id, xReq.pages)
    /\ xWriters' = {}
    /\ xReq' = RaceRequest("idle", 0, <<>>)
    /\ UNCHANGED <<xNextId, xRuns>>

\* classify_bounding_boxes(pdf_file_id): get_bounding_boxes_by_file_id, the
\* boxes collected and classified; it returns early when the document is not
\* found or no box is collected
RunCollects(id) ==
    /\ xRuns[id].pc = "idle"
    /\ id < xNextId
    /\ xRuns' = [xRuns EXCEPT ![id] =
                    IF MatchesFileId(xDoc, id) /\ RunClassifications(xDoc.pages) # <<>>
                    THEN RaceRun("collected", RunClassifications(xDoc.pages), <<>>, FALSE)
                    ELSE RaceRun("done", <<>>, <<>>, FALSE)]
    /\ UNCHANGED <<xDoc, xNextId, xReq, xUploaded, xWriters>>

\* update_bounding_box_classifications: find_one by pdf_file_id and the pages
\* of the document read, with the classifications set
RunFinds(id) ==
    /\ xRuns[id].pc = "collected"
    /\ xRuns' = [xRuns EXCEPT ![id] =
                    IF /\ MatchesFileId(xDoc, id)
                       /\ update_bounding_box_classifications(
                              TRUE, xDoc.pages, @.classifications, TRUE).update_one
                    THEN RaceRun("found", @.classifications,
                                 UpdatedPages(xDoc.pages, @.classifications), FALSE)
                    ELSE RaceRun("done", @.classifications, <<>>, TRUE)]
    /\ UNCHANGED <<xDoc, xNextId, xReq, xUploaded, xWriters>>

\* update_bounding_box_classifications: update_one({'pdf_file_id': id},
\* {'$set': {'pages': pages}})
RunWrites(id) ==
    /\ xRuns[id].pc = "found"
    /\ IF MatchesFileId(xDoc, id)
       THEN /\ xDoc' = [xDoc EXCEPT !.pages = xRuns[id].pages]
            /\ xWriters' = IF xRuns[id].pages # xDoc.pages
                           THEN xWriters \cup {id} ELSE xWriters
            /\ xRuns' = [xRuns EXCEPT ![id] = RaceRun("done", @.classifications, @.pages, FALSE)]
       ELSE /\ xRuns' = [xRuns EXCEPT ![id] = RaceRun("done", @.classifications, @.pages, TRUE)]
            /\ UNCHANGED <<xDoc, xWriters>>
    /\ UNCHANGED <<xNextId, xReq, xUploaded>>

RaceNext ==
    \/ \E pages \in RacePages : ParseStoresFile(pages) /\ UNCHANGED exceptRace
    \/ ParseStoresBoxes /\ UNCHANGED exceptRace
    \/ \E id \in 1..MaxRaceUploads : RunCollects(id) /\ UNCHANGED exceptRace
    \/ \E id \in 1..MaxRaceUploads : RunFinds(id) /\ UNCHANGED exceptRace
    \/ \E id \in 1..MaxRaceUploads : RunWrites(id) /\ UNCHANGED exceptRace

(***************************************************************************)
(* Specifications                                                          *)
(***************************************************************************)

\* every part of the system in its state after construction
Init ==
    /\ StoreInit
    /\ ChainInit
    /\ MergeIdle
    /\ CombineIdle
    /\ ParseIdle
    /\ RunIdle
    /\ VisionIdle
    /\ AgentIdle
    /\ ClassifyIdle
    /\ LabelIdle
    /\ PoolIdle
    /\ UpdateIdle
    /\ LoadIdle
    /\ DbIdle
    /\ RaceIdle

\* the PDF utilities applied to every document and chunk size within the bounds
InitMerge ==
    /\ StoreInit
    /\ ChainInit
    /\ MergeInit
    /\ CombineIdle
    /\ ParseIdle
    /\ RunIdle
    /\ VisionIdle
    /\ AgentIdle
    /\ ClassifyIdle
    /\ LabelIdle
    /\ PoolIdle
    /\ UpdateIdle
    /\ LoadIdle
    /\ DbIdle
    /\ RaceIdle

\* the combiner applied to every document within the bounds
InitCombine ==
    /\ StoreInit
    /\ ChainInit
    /\ MergeIdle
    /\ CombineInit
    /\ ParseIdle
    /\ RunIdle
    /\ VisionIdle
    /\ AgentIdle
    /\ ClassifyIdle
    /\ LabelIdle
    /\ PoolIdle
    /\ UpdateIdle
    /\ LoadIdle
    /\ DbIdle
    /\ RaceIdle

SpecStore == Init /\ [][StoreNext]_vars

SpecChains == Init /\ [][ChainNext]_vars

SpecMerge == InitMerge /\ [][MergeNext]_vars

SpecCombine == InitCombine /\ [][CombineNext]_vars

SpecParse == Init /\ [][ParseNext]_vars

SpecPick == Init /\ [][PickNext]_vars

SpecRun == Init /\ [][RunNext]_vars

InitVision ==
    /\ StoreInit
    /\ ChainInit
    /\ MergeIdle
    /\ CombineIdle
    /\ ParseIdle
    /\ RunIdle
    /\ VisionInit
    /\ AgentIdle
    /\ ClassifyIdle
    /\ LabelIdle
    /\ PoolIdle
    /\ UpdateIdle
    /\ LoadIdle
    /\ DbIdle
    /\ RaceIdle

SpecVision == InitVision /\ [][VisionNext]_vars

InitAgent ==
    /\ StoreInit
    /\ ChainInit
    /\ MergeIdle
    /\ CombineIdle
    /\ ParseIdle
    /\ RunIdle
    /\ VisionIdle
    /\ AgentInit
    /\ ClassifyIdle
    /\ LabelIdle
    /\ PoolIdle
    /\ UpdateIdle
    /\ LoadIdle
    /\ DbIdle
    /\ RaceIdle

SpecAgent == InitAgent /\ [][AgentNext]_vars

InitClassify ==
    /\ StoreInit
    /\ ChainInit
    /\ MergeIdle
    /\ CombineIdle
    /\ ParseIdle
    /\ RunIdle
    /\ VisionIdle
    /\ AgentIdle
    /\ ClassifyInit
    /\ LabelIdle
    /\ PoolIdle
    /\ UpdateIdle
    /\ LoadIdle
    /\ DbIdle
    /\ RaceIdle

SpecClassify == InitClassify /\ [][ClassifyNext]_vars

InitLabel ==
    /\ StoreInit
    /\ ChainInit
    /\ MergeIdle
    /\ CombineIdle
    /\ ParseIdle
    /\ RunIdle
    /\ VisionIdle
    /\ AgentIdle
    /\ ClassifyIdle
    /\ LabelInit
    /\ PoolIdle
    /\ UpdateIdle
    /\ LoadIdle
    /\ DbIdle
    /\ RaceIdle

SpecLabel == InitLabel /\ [][LabelNext]_vars

InitPool ==
    /\ StoreInit
    /\ ChainInit
    /\ MergeIdle
    /\ CombineIdle
    /\ ParseIdle
    /\ RunIdle
    /\ VisionIdle
    /\ AgentIdle
    /\ ClassifyIdle
    /\ LabelIdle
    /\ PoolInit
    /\ UpdateIdle
    /\ LoadIdle
    /\ DbIdle
    /\ RaceIdle

SpecPool == InitPool /\ [][PoolNext]_vars

InitUpdate ==
    /\ StoreInit
    /\ ChainInit
    /\ MergeIdle
    /\ CombineIdle
    /\ ParseIdle
    /\ RunIdle
    /\ VisionIdle
    /\ AgentIdle
    /\ ClassifyIdle
    /\ LabelIdle
    /\ PoolIdle
    /\ UpdateInit
    /\ LoadIdle
    /\ DbIdle
    /\ RaceIdle

SpecUpdate == InitUpdate /\ [][UpdateNext]_vars

InitLoad ==
    /\ StoreInit
    /\ ChainInit
    /\ MergeIdle
    /\ CombineIdle
    /\ ParseIdle
    /\ RunIdle
    /\ VisionIdle
    /\ AgentIdle
    /\ ClassifyIdle
    /\ LabelIdle
    /\ PoolIdle
    /\ UpdateIdle
    /\ LoadInit
    /\ DbIdle
    /\ RaceIdle

SpecLoad == InitLoad /\ [][LoadNext]_vars

InitDb ==
    /\ StoreInit
    /\ ChainInit
    /\ MergeIdle
    /\ CombineIdle
    /\ ParseIdle
    /\ RunIdle
    /\ VisionIdle
    /\ AgentIdle
    /\ ClassifyIdle
    /\ LabelIdle
    /\ PoolIdle
    /\ UpdateIdle
    /\ LoadIdle
    /\ DbInit
    /\ RaceIdle

SpecDatabase == InitDb /\ [][DatabaseNext]_vars

SpecProcess == InitDb /\ [][ProcessNext]_vars

InitRace ==
    /\ StoreInit
    /\ ChainInit
    /\ MergeIdle
    /\ CombineIdle
    /\ ParseIdle
    /\ RunIdle
    /\ VisionIdle
    /\ AgentIdle
    /\ ClassifyIdle
    /\ LabelIdle
    /\ PoolIdle
    /\ UpdateIdle
    /\ LoadIdle
    /\ DbIdle
    /\ RaceInit

SpecRace == InitRace /\ [][RaceNext]_vars

(***************************************************************************)
(* Properties                                                              *)
(***************************************************************************)

\* C1: after any sequence of upload_file_to_gridfs calls the store holds at
\* most one blob per filename; a call that returned has is_update true
\* exactly when a blob with that filename existed before it, the blob it
\* returned is stored under the filename, and every prior blob of that
\* filename is gone and has another identifier than the one returned.
C1_UploadUpsert ==
    /\ \A f, g \in fsFiles : f.filename = g.filename => f = g
    /\ upRet.outcome = "returned" =>
          /\ upRet.is_update <=> (upRet.prior # {})
          /\ \E f \in fsFiles : f.id = upRet.file_id /\ f.filename = upRet.filename
          /\ \A p \in upRet.prior :
                p # upRet.file_id /\ p \notin {f.id : f \in fsFiles}

\* C1 witness: a second upload of a stored filename has returned, while a
\* blob of another filename is stored too
C1_Witness ==
    /\ upRet.outcome = "returned"
    /\ upRet.is_update
    /\ Cardinality(fsFiles) = 2

\* C2: after any sequence of chain edits the last entry of each of the four
\* chains is that category's closing instruction.
C2_ClosingStaysLast ==
    \A c \in Categories :
        Len(tree[c]) > 0 /\ tree[c][Len(tree[c])] = Closing(c)

\* a request of one of the four chain routes was just served
ChainServed == nOps' = nOps + 1

\* C3: a chain-route request whose tree_index is outside [0,3] is answered
\* with HTTP 400 and leaves the four chains, in memory and in the file,
\* unchanged.
C3_BadTreeIndexIs400 ==
    [][(ChainServed /\ ~TreeIndexOk(lastReq'.tree_index))
          => (lastStatus' = 400 /\ tree' = tree /\ chainsFile' = chainsFile)]_vars

\* C4: human_chain_edit and human_chain_remove with a position outside
\* 0..len(chain)-1 (negative positions included) are answered with HTTP 400,
\* and then no chain entry is overwritten or removed and the file is not
\* rewritten.
C4_BadPositionIs400 ==
    [][(/\ ChainServed
        /\ lastReq'.route \in {"human-edit", "human-remove"}
        /\ TreeIndexOk(lastReq'.tree_index)
        /\ lastReq'.chain_index \notin 0..(Len(tree[lastReq'.tree_index]) - 1))
          => (lastStatus' = 400 /\ tree' = tree /\ chainsFile' = chainsFile)]_vars


\* ceil(n / c)
CeilDiv(n, c) == (n + c - 1) \div c

\* the pages of a list of chunks, chunk after chunk
RECURSIVE ChunkPagesFrom(_, _)
ChunkPagesFrom(chunks, i) ==
    IF i > Len(chunks) THEN <<>> ELSE chunks[i].pages \o ChunkPagesFrom(chunks, i + 1)

\* the extracted pages of all chunks, chunk after chunk
ChunkPagesOfData == ChunkPagesFrom(mData, 1)

\* split_pdf has run on the drawn PDF / merge_extracted_data on its chunks
SplitDone == mPc \in {"split", "extracted"} \/ (mPc = "merged" /\ mData # <<>>)
MergeDone == mPc = "merged" /\ mData # <<>>

\* C7: split_pdf of an N-page PDF (N >= 1) with chunk size C >= 1 yields
\* ceil(N/C) chunks of at most C consecutive pages, in order, covering every
\* page once (the original bytes alone when N <= C); merging the per-chunk
\* extractions, numbered 1..k within each chunk, yields page numbers 1..N in
\* order, each page once, and image page numbers rebased by the same offsets.
C7_SplitMergeRoundTrip ==
    LET n == Len(mPdf.pages)
    IN  /\ SplitDone =>
              /\ Len(mChunks) = CeilDiv(n, mChunkSize)
              /\ \A i \in 1..Len(mChunks) :
                    Len(mChunks[i].pages) >= 1 /\ Len(mChunks[i].pages) <= mChunkSize
              /\ ChunkPagesFrom(mChunks, 1) = mPdf.pages
              /\ n <= mChunkSize => mChunks = <<mPdf>>
        /\ MergeDone =>
              /\ mOut.err = "none"
              /\ Len(mOut.pages) = n
              /\ \A i \in 1..n :
                    mOut.pages[i].page_number = i /\ mOut.pages[i].src = i
              /\ Len(mOut.images) = Cardinality(mImgs)
              /\ \A k \in 1..Len(mOut.images) :
                    /\ mOut.images[k].page_number = mOut.images[k].src
                    /\ mOut.images[k].src \in mImgs
                    /\ \A l \in 1..(k - 1) : mOut.images[l].src < mOut.images[k].src

\* C7 witness: a merged document of several chunks, the last one shorter
\* than the chunk size, with an image on a page of a later chunk
C7_Witness ==
    /\ MergeDone
    /\ Len(mChunks) >= 2
    /\ Len(mPdf.pages) % mChunkSize # 0
    /\ \E k \in 1..Len(mOut.images) : mOut.images[k].page_number > mChunkSize

\* the identifiers of the annotations of a page list, in page then annotation order
RECURSIVE AllIds(_, _)
AllIds(pages, j) ==
    IF j > Len(pages) THEN <<>>
    ELSE [k \in 1..Len(pages[j].text_annotations) |-> pages[j].text_annotations[k].id]
         \o AllIds(pages, j + 1)

DigitValue(ch) ==
    CASE ch = "0" -> 0 [] ch = "1" -> 1 [] ch = "2" -> 2 [] ch = "3" -> 3 [] ch = "4" -> 4
      [] ch = "5" -> 5 [] ch = "6" -> 6 [] ch = "7" -> 7 [] ch = "8" -> 8 [] ch = "9" -> 9

\* the number a digit string denotes
RECURSIVE DecimalValue(_)
DecimalValue(str) ==
    IF Len(str) = 1 THEN DigitValue(str[1])
    ELSE 10 * DecimalValue(SubSeq(str, 1, Len(str) - 1)) + DigitValue(str[Len(str)])

\* str is the decimal numeral of k >= 1: no leading zero, value k
IsNumeralOf(str, k) == Len(str) >= 1 /\ str[1] # "0" /\ DecimalValue(str) = k

\* C8: merging K >= 1 chunks whose identifiers each restart at "1" yields
\* identifiers that read, in chunk, page and annotation order, "1", "2", ...,
\* "T" (T the number of annotations), so none occurs twice; merging an empty
\* chunk list fails with ValueError.
C8_MergedIdsSequential ==
    /\ MergeDone =>
          LET ids == AllIds(mOut.pages, 1)
              total == CountAnnotations(ChunkPagesOfData, 1)
          IN  /\ mOut.err = "none"
              /\ Len(ids) = total
              /\ \A k \in 1..Len(ids) : IsNumeralOf(ids[k], k)
              /\ \A k, l \in 1..Len(ids) : ids[k] = ids[l] => k = l
    /\ (mPc = "merged" /\ mData = <<>>) => mOut.err = "ValueError"

\* C8 witness: several chunks merged, ten or more annotations, some of them
\* in a chunk after the first
C8_Witness ==
    /\ MergeDone
    /\ Len(mData) >= 2
    /\ Len(AllIds(mOut.pages, 1)) >= 10
    /\ \E i \in 2..Len(mData) : CountAnnotations(mData[i].pages, 1) >= 2
    /\ CountAnnotations(mData[1].pages, 1) >= 1

(***************************************************************************)
(* Parse route: error policy and background classification                 *)
(***************************************************************************)

\* the request has been answered
ParseAnswered == pPc = "done" /\ pResp.status_code # 0

\* C5: in the parse route an HTTPException raised by an internal step reaches
\* the caller with its own status code and detail, on the single path and on
\* the split path alike (so the page-limit error process_pdf_chunk raises as
\* HTTP 400 is answered with HTTP 400), and any other exception is answered
\* with HTTP 500.
C5_HTTPExceptionPreserved ==
    ParseAnswered =>
        /\ pRaised.kind = "HTTPException" =>
              /\ pResp.status_code = pRaised.status_code
              /\ pResp.detail = pRaised.detail
        /\ pRaised.kind = "Exception" => pResp.status_code = 500

\* the split path has answered a request whose chunk hit the page limit
C5_Witness ==
    /\ ParseAnswered
    /\ pReq.pages > MAX_PAGES_PER_CHUNK
    /\ pRaised.kind = "HTTPException"
    /\ pRaised.status_code = 400
    /\ pChunkIdx >= 1

\* the background classifications scheduled for a stored file
TasksFor(pdf_file_id) == {i \in 1..Len(bgTasks) : bgTasks[i].pdf_file_id = pdf_file_id}

\* C6: a parse request that stored a document and was answered with HTTP 201
\* has scheduled exactly one background classification, for the identifier of
\* the stored file.
C6_ClassificationScheduled ==
    (ParseAnswered /\ pResp.status_code = 201) =>
        Cardinality(TasksFor(pResp.pdf_file_id)) = 1

\* a request answered with 201 whose PDF and layout document are both stored
C6_Witness ==
    /\ ParseAnswered
    /\ pResp.status_code = 201
    /\ \E f \in fsFiles : f.id = pResp.pdf_file_id
    /\ \E d \in bbDocs : d.pdf_file_id = pResp.pdf_file_id

(***************************************************************************)
(* Bounding-box combiner: pages stay apart, runs of small boxes merge      *)
(***************************************************************************)

CombineDone == cPc = "done"

\* the annotations of `anns` at the positions in S, in order, from position k on
RECURSIVE PickAnnotations(_, _, _)
PickAnnotations(anns, S, k) ==
    IF k > Len(anns) THEN <<>>
    ELSE (IF k \in S THEN <<anns[k]>> ELSE <<>>) \o PickAnnotations(anns, S, k + 1)

\* o is the merge of two or more of the annotations in `anns`
IsMergeWithin(o, anns, page_number) ==
    \E S \in SUBSET (1..Len(anns)) :
        /\ Cardinality(S) >= 2
        /\ o = CombinedAnnotation(PickAnnotations(anns, S, 1), page_number)

\* the document made of page p of `doc` alone
OnlyPage(doc, p) == [pages |-> <<doc.pages[p]>>]

\* C9: combine_bounding_boxes never merges annotations of different pages:
\* every output annotation of page p is one input annotation of page p or the
\* merge of input annotations of page p, and the output list of page p is
\* what the combiner gives for page p's input list alone.
C9_PagesStayApart ==
    CombineDone =>
        /\ Len(cOut.pages) = Len(cIn.pages)
        /\ \A p \in 1..Len(cIn.pages) :
              LET in == cIn.pages[p].text_annotations
                  out == cOut.pages[p].text_annotations
              IN  /\ \A j \in 1..Len(out) :
                        \/ \E i \in 1..Len(in) : out[j] = in[i]
                        \/ IsMergeWithin(out[j], in, cIn.pages[p].page_number)
                  /\ out = combine_bounding_boxes(OnlyPage(cIn, p), MaxAreaThreshold)
                               .pages[1].text_annotations

IsSmall(ann) == get_bbox_area(ann.bounding_box) <= MaxAreaThreshold

\* page 1 ends with a small box and page 2 starts with one; both pages have
\* merged a run, and the two boxes are in different output annotations
C9_Witness ==
    /\ CombineDone
    /\ Len(cIn.pages) = 2
    /\ LET in1 == cIn.pages[1].text_annotations
           in2 == cIn.pages[2].text_annotations
           out1 == cOut.pages[1].text_annotations
           out2 == cOut.pages[2].text_annotations
       IN  /\ Len(in1) = 2 /\ Len(in2) = 2
           /\ \A k \in 1..2 : IsSmall(in1[k]) /\ in1[k].page_number = NoPage
           /\ \A k \in 1..2 : IsSmall(in2[k]) /\ in2[k].page_number = NoPage
           /\ Len(out1) = 1 /\ Len(out2) = 1
           /\ out1[1].id = in1[1].id /\ out2[1].id = in2[1].id

\* the last position of the run of small annotations that starts at k
RECURSIVE RunEnd(_, _)
RunEnd(anns, k) ==
    IF k < Len(anns) /\ IsSmall(anns[k + 1]) THEN RunEnd(anns, k + 1) ELSE k

\* the texts of the members that are not empty once trimmed, joined by spaces
RunText(run) ==
    LET kept == SelectSeq([i \in 1..Len(run) |-> PyStrip(run[i].text)],
                          LAMBDA t : t # <<>>)
    IN  JoinWithSpace(kept)

\* the union rectangle of the members of a run
RunBox(run) ==
    LET b == [i \in 1..Len(run) |-> get_bbox_bounds(run[i].bounding_box)]
        lo(c) == CHOOSE v \in {b[i][c] : i \in 1..Len(run)} :
                     \A i \in 1..Len(run) : v <= b[i][c]
        hi(c) == CHOOSE v \in {b[i][c] : i \in 1..Len(run)} :
                     \A i \in 1..Len(run) : v >= b[i][c]
    IN  Rect(lo(1), lo(2), hi(3), hi(4))

\* the fields of an annotation the merge is described by
MergeFields(ann) ==
    [id |-> ann.id, text |-> ann.text, bounding_box |-> ann.bounding_box,
     type |-> ann.type, classification |-> ann.classification]

\* what is wanted of a page from position k on: each maximal run of small
\* annotations as one entry, each oversized annotation as it is
RECURSIVE RunsFrom(_, _)
RunsFrom(anns, k) ==
    IF k > Len(anns) THEN <<>>
    ELSE IF ~IsSmall(anns[k]) THEN <<[kept |-> TRUE, ann |-> anns[k]]>> \o RunsFrom(anns, k + 1)
    ELSE LET e == RunEnd(anns, k)
             run == SubSeq(anns, k, e)
         IN  (IF e = k
              THEN <<[kept |-> TRUE, ann |-> anns[k]]>>
              ELSE <<[kept |-> FALSE,
                      ann |-> [anns[k] EXCEPT !.text = RunText(run),
                                              !.bounding_box = RunBox(run)]]>>)
             \o RunsFrom(anns, e + 1)

\* C10: on each page every maximal run of consecutive annotations of area
\* <= max_area_threshold becomes one annotation (a run of one is kept
\* unchanged; a longer run has the union rectangle of its members, their
\* non-empty texts joined by spaces, and the identifier, type and
\* classification of the first member), every annotation of larger area is
\* kept unchanged, and the order is preserved.
C10_RunsMerged ==
    CombineDone =>
        \A p \in 1..Len(cIn.pages) :
            LET want == RunsFrom(cIn.pages[p].text_annotations, 1)
                out == cOut.pages[p].text_annotations
            IN  /\ Len(out) = Len(want)
                /\ \A j \in 1..Len(want) :
                      IF want[j].kept THEN out[j] = want[j].ann
                      ELSE MergeFields(out[j]) = MergeFields(want[j].ann)

\* areas 100, 200 and 150000 on one page have given two annotations
C10_Witness ==
    /\ CombineDone
    /\ Len(cIn.pages) = 1
    /\ LET in == cIn.pages[1].text_annotations
           out == cOut.pages[1].text_annotations
       IN  /\ Len(in) = 3
           /\ get_bbox_area(in[1].bounding_box) = 100
           /\ get_bbox_area(in[2].bounding_box) = 200
           /\ get_bbox_area(in[3].bounding_box) = 150000
           /\ \A k \in 1..3 : in[k].page_number = NoPage
           /\ Len(out) = 2
           /\ out[2] = in[3]

(***************************************************************************)
(* Chains: manual add, and the chain file                                  *)
(***************************************************************************)

EndsWithClosing(chain, c) == Len(chain) > 0 /\ chain[Len(chain)] = Closing(c)

\* C11: human_chain_add on a category whose chain ends with the closing
\* instruction puts the new text immediately before the closing instruction
\* (after the texts added by earlier calls), makes the chain one longer,
\* leaves the closing instruction last and the other three chains unchanged;
\* N calls therefore add N entries, in call order, before the closing one.
C11_AddBeforeClosing ==
    [][(/\ ChainServed
        /\ lastReq'.route = "human-add"
        /\ TreeIndexOk(lastReq'.tree_index)
        /\ EndsWithClosing(tree[lastReq'.tree_index], lastReq'.tree_index))
          => LET ti == lastReq'.tree_index
                 old == tree[ti]
             IN  /\ lastStatus' = 200
                 /\ Len(tree'[ti]) = Len(old) + 1
                 /\ EndsWithClosing(tree'[ti], ti)
                 /\ \E t \in NewTexts :
                       tree'[ti] = SubSeq(old, 1, Len(old) - 1) \o <<t, Closing(ti)>>
                 /\ \A c \in Categories \ {ti} : tree'[c] = tree[c]]_vars

\* two calls of human_chain_add on one category: two entries before the
\* closing instruction
C11_Witness ==
    /\ lastReq.route = "human-add"
    /\ lastStatus = 200
    /\ LET ti == lastReq.tree_index
       IN  /\ Len(tree[ti]) = Len(DefaultChains[ti]) + 2
           /\ EndsWithClosing(tree[ti], ti)
           /\ \A k \in 1..2 : tree[ti][Len(tree[ti]) - k] \in NewTexts
           /\ \A c \in Categories \ {ti} : tree[c] = DefaultChains[c]

\* C12: after every edit that returns successfully the chain file holds the
\* agent's four in-memory chains, so an agent constructed from the file has
\* the chains of the agent that made the edits.
C12_FileHoldsChains ==
    /\ chainsFile = ChainsData(tree)
    /\ load_chains(chainsFile) = tree

\* two successful edits, the second a removal, have changed the chains
C12_Witness ==
    /\ nOps = 2
    /\ lastStatus = 200
    /\ lastReq.route = "human-remove"
    /\ tree # DefaultChains
    /\ \E c \in Categories : Len(tree[c]) # Len(DefaultChains[c])

(***************************************************************************)
(* Runs: the category picked, and chain edits during a run                 *)
(***************************************************************************)

RunPicked == rPc # "idle"

\* the words of a response that are integers within [0,3]
CategoryWords(response) ==
    {i \in 1..Len(PySplit(response)) :
        /\ PyIsDigit(PySplit(response)[i])
        /\ DigitsValue(PySplit(response)[i]) \in 0..3}

\* C13: for every response pick_chain returns an index in {0,1,2,3}, the
\* first whitespace-delimited integer within [0,3] when there is one, and a
\* response never makes the run fail.
C13_PickInRange ==
    RunPicked =>
        /\ rClass \in Categories
        /\ CategoryWords(rResp) # {} =>
              \E i \in CategoryWords(rResp) :
                  /\ \A j \in CategoryWords(rResp) : i <= j
                  /\ rClass = DigitsValue(PySplit(rResp)[i])
        /\ rOutcome # "IndexError"

\* a run has returned for a response whose first category is not its first word
C13_Witness ==
    /\ rPc = "done"
    /\ rOutcome = "returned"
    /\ Len(PySplit(rResp)) >= 2
    /\ CategoryWords(rResp) # {}
    /\ 1 \notin CategoryWords(rResp)
    /\ rClass = 3

\* C19: whatever chain edits are served during a run, the run does not fail
\* with an out-of-range chain position, and when it returns, the last
\* instruction it executed is the closing instruction of the chosen chain and
\* no other executed instruction is.
C19_RunSafeUnderEdits ==
    /\ rOutcome # "IndexError"
    /\ rOutcome = "returned" =>
          /\ Len(rSteps) > 0
          /\ rSteps[Len(rSteps)] = Closing(rClass)
          /\ \A k \in 1..(Len(rSteps) - 1) : rSteps[k] # Closing(rClass)

\* a run has returned after a chain edit on its category was served
C19_Witness ==
    /\ rOutcome = "returned"
    /\ nOps >= 1
    /\ lastStatus = 200
    /\ lastReq.tree_index = rClass
    /\ tree[rClass] # DefaultChains[rClass]

(***************************************************************************)
(* Image safety classifier: one result per image, batches of at most 16    *)
(***************************************************************************)

VisionDone == vPc = "done"

\* the batch image i falls into when batches hold `size` images
BatchOf(i, size) == ((i - 1) \div size) + 1

\* the batched call for the batch of image i was made and threw
BatchThrew(i) ==
    LET size == CappedBatchSize(vIn.batch_size)
        batch_start == (BatchOf(i, size) - 1) * size
    IN  /\ BatchOf(i, size) \in vIn.throwing
        /\ BatchRequests(batch_start, Min(batch_start + size, vIn.total_images),
                         vIn.bad) # {}

\* the claim of C14 for the calls whose batch_size is at least 1
C14_PositiveBatchSize ==
    (VisionDone /\ vIn.batch_size >= 1) =>
        /\ vOut.raised = "none"
        /\ Len(vOut.results) = vIn.total_images
        /\ \A i \in 1..Len(vOut.results) : vOut.results[i].of \in {0, i}
        /\ \A c \in 1..Len(vOut.calls) : Cardinality(vOut.calls[c]) <= 16
        /\ \A i \in 1..Len(vOut.results) :
              (vOut.results[i].error = "Batch processing error") <=> BatchThrew(i)

\* C14: for every list of n images and every requested batch_size the
\* classifier returns exactly n results, result i being that of image i, no
\* call carries more than 16 images, and when a batched call throws exactly
\* the images of that batch have a batch-level error result.
C14_OneResultPerImage ==
    VisionDone =>
        /\ vOut.raised = "none"
        /\ Len(vOut.results) = vIn.total_images
        /\ \A i \in 1..Len(vOut.results) : vOut.results[i].of \in {0, i}
        /\ \A c \in 1..Len(vOut.calls) : Cardinality(vOut.calls[c]) <= 16
        /\ \A i \in 1..Len(vOut.results) :
              (vOut.results[i].error = "Batch processing error")
                  <=> BatchThrew(i)

\* 33 images with batch_size 50: three calls, the second of which threw
C14_Witness ==
    /\ VisionDone
    /\ vIn.total_images = 33
    /\ vIn.batch_size = 50
    /\ vIn.throwing = {2}
    /\ Len(vOut.calls) = 3
    /\ Len(vOut.results) = 33
    /\ vOut.results[16].kind = "annotation"
    /\ vOut.results[17].error = "Batch processing error"
    /\ vOut.results[33].kind = "annotation"

(***************************************************************************)
(* Reading the agent's answer: category name and clamped confidence        *)
(***************************************************************************)

AgentParsed == aPc = "done"

\* the result ends with the number `number` reported after "Confidence: "
ReportsLast(number) ==
    /\ DOMAIN aIn # {}
    /\ aIn[MaxKey(DOMAIN aIn)] = <<"Confidence", ":", " ">> \o number

\* response_0 is "Classification: " followed by `digits`
ClassifiedAs(digits) ==
    /\ 0 \in DOMAIN aIn
    /\ aIn[0] = <<"Classification", ":", " ">> \o digits

SameValue(confidence, num, den) == confidence.num * den = num * confidence.den

\* C15: for every agent result parse_top_agent_response returns one of the
\* four category names, the one of the integer 0..3 read from response_0 or
\* public when none is recognised, and a confidence within [0.0, 1.0] read
\* from the numerically last response_N: 1.5 gives 1.0, -0.3 or an
\* unparsable value gives 0.0; with nothing parsable it returns public, 0.0
\* and an empty explanation.
C15_CategoryAndConfidence ==
    AgentParsed =>
        /\ aOut.classification \in {"sensitive", "confidential", "public", "unsafe"}
        /\ 0 <= aOut.confidence.num
        /\ aOut.confidence.num <= aOut.confidence.den
        /\ ClassifiedAs(<<"3">>) => aOut.classification = "unsafe"
        /\ ClassifiedAs(<<"1", "2">>) => aOut.classification = "public"
        /\ ClassifiedAs(<<"4">>) => aOut.classification = "public"
        /\ ClassifiedAs(<<"x", " ", "1">>) => aOut.classification = "confidential"
        /\ (0 \in DOMAIN aIn /\ aIn[0] = <<"x">>) => aOut.classification = "public"
        /\ 0 \notin DOMAIN aIn => aOut.classification = "public"
        /\ ReportsLast(<<"1", ".", "5">>) => SameValue(aOut.confidence, 1, 1)
        /\ ReportsLast(<<".", "5">>) => SameValue(aOut.confidence, 1, 2)
        /\ ReportsLast(<<"0", ".", "3">>) => SameValue(aOut.confidence, 3, 10)
        /\ ReportsLast(<<"-", "0", ".", "3">>) => SameValue(aOut.confidence, 0, 1)
        /\ ReportsLast(<<"1", ".", ".">>) => SameValue(aOut.confidence, 0, 1)
        /\ ReportsLast(<<>>) => SameValue(aOut.confidence, 0, 1)
        /\ DOMAIN aIn = {} =>
              /\ aOut.classification = "public"
              /\ SameValue(aOut.confidence, 0, 1)
              /\ aOut.explanation = <<>>

\* three responses, response_10 the last: it reports 1.5 and 1.0 is returned
C15_Witness ==
    /\ AgentParsed
    /\ DOMAIN aIn = {0, 2, 10}
    /\ ClassifiedAs(<<"3">>)
    /\ aIn[10] = <<"Confidence", ":", " ", "1", ".", "5">>
    /\ aOut.classification = "unsafe"
    /\ aOut.confidence = One

(***************************************************************************)
(* Classifying the stored boxes                                            *)
(***************************************************************************)

ClassifyDone == kPc = "done"

DocumentRead == kRet.error # "Could not retrieve bounding boxes"

\* every box of the document has empty or blank text, or no identifier
NothingToClassify ==
    \A p \in 1..Len(kDoc0) : \A b \in 1..Len(kDoc0[p]) :
        PyStrip(kDoc0[p][b].text) = <<>> \/ kDoc0[p][b].id = <<>>

\* C16: for a stored document whose every box has empty or whitespace-only
\* text or no identifier, classify_bounding_boxes returns success with
\* classified_count 0 and total_count 0, never invokes the agent and leaves
\* the stored document unchanged.
C16_NothingToClassify ==
    (ClassifyDone /\ DocumentRead /\ NothingToClassify) =>
        /\ kRet.success
        /\ kRet.classified_count = 0
        /\ kRet.total_count = 0
        /\ kAgentCalls = 0
        /\ kStored = kDoc0

\* a document of three boxes (empty, blank, no identifier) was read
C16_Witness ==
    /\ ClassifyDone
    /\ DocumentRead
    /\ NothingToClassify
    /\ Len(kDoc0) = 2
    /\ Len(kDoc0[2]) = 2
    /\ kDoc0[1][1].text = <<>>
    /\ kDoc0[2][1].text = <<" ">>
    /\ kDoc0[2][2].id = <<>>
    /\ kRet.success

\* the run_doc result of collected block i
ResultOf(i) == kResults[CHOOSE j \in 1..Len(kResults) : kResults[j].of = i]

\* the stored box that collected block i was taken from
StoredBox(i) ==
    LET page == kStored[kMeta[i].page_index + 1]
    IN  page[CHOOSE b \in 1..Len(page) : page[b].id = kMeta[i].bbox_id]

\* C18: for every completion order of the worker pool and every subset of
\* failing blocks, the classification, confidence and explanation written to
\* a box are the ones derived from the run_doc result of that box's own text.
C18_ResultsAligned ==
    (ClassifyDone /\ kRet.success /\ kAgentCalls > 0) =>
        \A i \in 1..Len(kMeta) :
            LET own == Classification(kMeta[i], ResultOf(i))
            IN  /\ StoredBox(i).classification = own.classification
                /\ StoredBox(i).confidence = own.confidence
                /\ StoredBox(i).explanation = own.explanation

\* two blocks were classified and the second completed first
C18_Witness ==
    /\ ClassifyDone
    /\ kRet.success
    /\ Len(kResults) = 2
    /\ kResults[1].of = 2
    /\ kResults[2].of = 1

(***************************************************************************)
(* Parse route: the temporary directory                                    *)
(***************************************************************************)

\* C17: for every parse request that creates a temporary directory, on every
\* exit path (201, an HTTP error, an exception at any step) the directory has
\* been removed by the time the request finishes.
C17_TempDirRemoved == ParseAnswered => ~pTempDir

\* a request that failed after its temporary directory was created: the
\* database refused the boxes
C17_Witness ==
    /\ ParseAnswered
    /\ pRaised = OtherException(<<"database error">>)
    /\ pResp.status_code = 500
    /\ ~pTempDir

(***************************************************************************)
(* Parse route: the documents and the blob they name                       *)
(***************************************************************************)

\* no parse request is in progress
ParseQuiet == pPc \in {"idle", "done"}

\* the identifiers of the blobs in the object store
StoredIds == {f.id : f \in fsFiles}

\* C20: after any sequence of parse requests (first uploads and re-uploads,
\* with or without images, succeeding or failing at any step) every document
\* of bounding_boxes and of bounding_boxes_img has a pdf_file_id that
\* identifies a blob present in the object store.
C20_DocumentsNameStoredBlob ==
    ParseQuiet =>
        /\ \A d \in bbDocs : d.pdf_file_id \in StoredIds
        /\ \A d \in imgDocs : d.pdf_file_id \in StoredIds

\* a file uploaded twice, the second time answered 201, with image documents
C20_Witness ==
    /\ ParseQuiet
    /\ nParse = 2
    /\ pResp.status_code = 201
    /\ bbDocs # {}
    /\ imgDocs # {}
    /\ \E f \in fsFiles : f.id = 2

(***************************************************************************)
(* The chain chosen and the category named for one first response          *)
(***************************************************************************)

Labelled == lPc = "done"

\* C21: for every first-step response, the category name derived from
\* response_0 by parse_top_agent_response is the name of the chain index
\* pick_chain chose for that same response.
C21_NameMatchesChain ==
    Labelled =>
        /\ lPick \in 0..3
        /\ lName = CATEGORY_NAMES[lPick + 1]

\* "Classification: 3" is read as chain 3 and named unsafe
C21_Witness ==
    /\ Labelled
    /\ lResp = <<"Classification", ":", " ", "3">>
    /\ lPick = 3
    /\ lName = "unsafe"

(***************************************************************************)
(* Combiner: what becomes of every input annotation, and the identifiers   *)
(***************************************************************************)

\* input annotation i of the list `in` is one of the members of a merged
\* annotation of the list `out`
IsMemberOfMerge(i, in, out, page_number) ==
    \E j \in 1..Len(out) : \E S \in SUBSET (1..Len(in)) :
        /\ i \in S
        /\ Cardinality(S) >= 2
        /\ out[j] = CombinedAnnotation(PickAnnotations(in, S, 1), page_number)

\* C22: combine_bounding_boxes never drops an annotation: on every page
\* every input annotation is present unchanged in the page's output or is a
\* member of a merged output annotation; an annotation whose page_number
\* disagrees with the page it is listed under is kept, unmerged.
C22_NothingDropped ==
    CombineDone =>
        \A p \in 1..Len(cIn.pages) :
            LET in == cIn.pages[p].text_annotations
                out == cOut.pages[p].text_annotations
            IN  \A i \in 1..Len(in) :
                    /\ \/ \E j \in 1..Len(out) : out[j] = in[i]
                       \/ IsMemberOfMerge(i, in, out, cIn.pages[p].page_number)
                    /\ (in[i].page_number # NoPage
                            /\ in[i].page_number # cIn.pages[p].page_number)
                          => \E j \in 1..Len(out) : out[j] = in[i]

\* page 1 lists an annotation that says it belongs to page 2
C22_Witness ==
    /\ CombineDone
    /\ Len(cIn.pages[1].text_annotations) = 3
    /\ cIn.pages[1].text_annotations[2].page_number = 2
    /\ cIn.pages[1].text_annotations[1].page_number = NoPage
    /\ cIn.pages[1].text_annotations[3].page_number = NoPage

\* C23: after combine_bounding_boxes has run on an extracted document the
\* identifiers, read in page order then annotation order, are exactly "1",
\* "2", ..., "k" (k the number of output annotations), hence distinct.
C23_CombinedIdsSequential ==
    CombineDone =>
        LET ids == AllIds(cOut.pages, 1)
        IN  /\ \A k \in 1..Len(ids) : IsNumeralOf(ids[k], k)
            /\ \A k, l \in 1..Len(ids) : ids[k] = ids[l] => k = l

\* two small boxes were merged and a third annotation follows them
C23_Witness ==
    /\ CombineDone
    /\ Len(cIn.pages) = 1
    /\ Len(cIn.pages[1].text_annotations) = 3
    /\ \A k \in 1..3 : cIn.pages[1].text_annotations[k].page_number = NoPage
    /\ Len(cOut.pages[1].text_annotations) = 2
    /\ cOut.pages[1].text_annotations[1].id = <<"1">>
    /\ cOut.pages[1].text_annotations[2].id = <<"3">>

(***************************************************************************)
(* Runs: the steps of a run that no edit and no model failure disturbs     *)
(***************************************************************************)

\* the run is over and no call of the model failed
RunUndisturbed == rPc = "done" /\ rOutcome # "LlmError"

\* C24: with no concurrent chain edit and no failing model call, run
\* terminates after exactly 1 + L model calls, L >= 1 the length of the chain
\* pick_chain chose, and returns the category-picking step followed by the
\* chosen chain's instructions in order, one step per instruction.
C24_RunWalksChosenChain ==
    RunUndisturbed =>
        /\ rOutcome = "returned"
        /\ TreeIndexValid(rClass)
        /\ Len(TreeAt(rClass)) >= 1
        /\ rSteps = TreeAt(rClass)

\* the response "3": the run returned after the steps of the unsafe chain
C24_Witness ==
    /\ RunUndisturbed
    /\ rResp = <<"3">>
    /\ rOutcome = "returned"
    /\ rSteps = tree[3]
    /\ Len(rSteps) >= 2

(***************************************************************************)
(* run_doc: one result per block, within the pool size                     *)
(***************************************************************************)

RunDocDone == wPc = "done"

\* the configured pool size is missing, not a number, or below 1
PoolSizeUnusable ==
    \/ ~wEnv.set
    \/ wEnv.value \in {<<"0">>, <<"-", "5">>, <<"x">>, <<>>}

\* C25: run_doc returns exactly one result per input block for every
\* completion order: the run mapping of a block whose run succeeds, an error
\* record for a block whose run throws; and at no moment are more blocks
\* being classified than the pool size, which is 20 when the configured
\* value is missing, non-numeric or below 1.
C25_OneResultPerBlock ==
    /\ wPc # "idle" => Cardinality(wRunning) <= wMax
    /\ (wPc # "idle" /\ PoolSizeUnusable) => wMax = 20
    /\ (wPc # "idle" /\ wEnv.value = <<"2">>) => wMax = 2
    /\ RunDocDone =>
          /\ Len(wResults) = wBlocks
          /\ \A i \in 1..wBlocks :
                Cardinality({k \in 1..Len(wResults) : wResults[k].of = i}) = 1
          /\ \A k \in 1..Len(wResults) :
                wResults[k].error <=> (wResults[k].of \in wThrew)

\* three blocks on a pool of two: the second finished first and threw, the
\* others returned
C25_Witness ==
    /\ RunDocDone
    /\ wMax = 2
    /\ wBlocks = 3
    /\ wResults[1] = DocResult(2, TRUE)
    /\ ~wResults[2].error
    /\ ~wResults[3].error

(***************************************************************************)
(* Writing classifications back: the value returned and the frame          *)
(***************************************************************************)

UpdateDone == uPc = "done"

\* the boxes of the document read that have an identifier and an entry for
\* their (page index, identifier)
MatchedBoxes ==
    {pb \in UNION {{<<p, b>> : b \in 1..Len(uDoc0[p])} : p \in 1..Len(uDoc0)} :
        /\ uDoc0[pb[1]][pb[2]].id # <<>>
        /\ \E i \in 1..Len(uCls) :
              uCls[i].page_index = pb[1] - 1 /\ uCls[i].bbox_id = uDoc0[pb[1]][pb[2]].id}

\* the box with its three classification fields blanked
WithoutClassification(bbox) ==
    [bbox EXCEPT !.classification = "", !.confidence = Zero, !.explanation = <<>>]

\* C26: update_bounding_box_classifications returns true only if at least
\* one box matched an entry by (page_index, identifier) and the database
\* acknowledged a modification, and false if the document is not found,
\* nothing matched or nothing was modified; when it writes, only the
\* classification, confidence and explanation of matched boxes differ from
\* the document read; when nothing matched the document is not written.
C26_UpdateFrame ==
    UpdateDone =>
        /\ uRet => (uFound /\ MatchedBoxes # {} /\ uStored # uDoc0)
        /\ (~uFound \/ MatchedBoxes = {} \/ uStored = uDoc0) => ~uRet
        /\ Len(uStored) = Len(uDoc0)
        /\ \A p \in 1..Len(uDoc0) :
              /\ Len(uStored[p]) = Len(uDoc0[p])
              /\ \A b \in 1..Len(uDoc0[p]) :
                    IF <<p, b>> \in MatchedBoxes
                    THEN WithoutClassification(uStored[p][b])
                            = WithoutClassification(uDoc0[p][b])
                    ELSE uStored[p][b] = uDoc0[p][b]
        /\ (~uFound \/ MatchedBoxes = {}) => (uWrites = 0 /\ uStored = uDoc0)

\* two pages, entries for box "1" of the first and for an identifier the
\* document lacks: the first box is unsafe now, the others are as read
C26_Witness ==
    /\ UpdateDone
    /\ uRet
    /\ Len(uDoc0) = 2
    /\ Len(uDoc0[2]) = 2
    /\ uCls = <<ClassificationEntry(0, <<"1">>, "unsafe"),
               ClassificationEntry(1, <<"1">>, "public")>>
    /\ uStored[1][1].classification = "unsafe"
    /\ uStored[2] = uDoc0[2]

(***************************************************************************)
(* Agent construction: absent and malformed chain files                    *)
(***************************************************************************)

AgentConstructed == gPc = "done"

\* the file is there but is not the JSON object of four lists it should be:
\* it is not JSON, not an object, or holds a chain that is no list
Malformed(file) ==
    \/ file.kind \in {"not_json", "not_object"}
    \/ file.kind = "object" /\ \E c \in Categories : file.keys[c].kind = "string"

\* C27: at construction, if the chain file is absent the agent holds the
\* four default chains and the file is created containing them; if the file
\* is present but malformed the agent uses the four default chains and the
\* file is not overwritten.
C27_DefaultsOnBadFile ==
    AgentConstructed =>
        /\ gFile0.kind = "absent" =>
              /\ gTree = DefaultValues
              /\ gFile = [kind |-> "object", keys |-> DefaultValues]
        /\ Malformed(gFile0) =>
              /\ gTree = DefaultValues
              /\ gFile = gFile0

\* a file that is not JSON: the defaults are held and the file is as it was
C27_Witness ==
    /\ AgentConstructed
    /\ gFile0.kind = "not_json"
    /\ gTree = DefaultValues
    /\ gFile = gFile0

(***************************************************************************)
(* Database handles: caching, failure and shutdown                         *)
(***************************************************************************)

GetFailed == dbLast.op = "get" /\ dbLast.exc # "none"

\* C28: for any sequence of get_database and close_database calls, a
\* successful get_database with a cached client returns the cached handles
\* and opens nothing; a get_database that fails fails with ConnectionFailure
\* and leaves no cached client; close_database leaves no cached client and
\* no client of the module open.
C28_CacheAndFailure ==
    /\ dbLast.op = "get" /\ dbLast.cached =>
          /\ dbLast.exc = "none"
          /\ ~dbLast.opened
          /\ dbLast.handles = svcHandles
          /\ svcClient = svcHandles
    /\ dbLast.op = "get" /\ dbLast.exc = "none" => svcClient \in openClients
    /\ GetFailed => dbLast.exc = "ConnectionFailure" /\ svcClient = 0
    /\ dbLast.op = "close" => svcClient = 0 /\ openClients = {}

\* get_database was called with a credential unset and failed
C28_Witness ==
    /\ GetFailed
    /\ ~dbCreds
    /\ svcClient = 0

\* C29: the process has a single database handle: absent failures at most
\* one database client has been opened, whichever components have run, and
\* after the shutdown hook has run no client opened by the process is open.
C29_SingleHandle ==
    /\ ~dbFailed => nOpened <= 1
    /\ dbDown => openClients = {}

\* a view route and the classification pipeline have both fetched their
\* handles without failure and the shutdown hook has run
C29_Witness ==
    /\ dbDown
    /\ ~dbFailed
    /\ apiHandles # 0
    /\ svcHandles # 0

(***************************************************************************)
(* A filename parsed again while a classification run is under way         *)
(***************************************************************************)

\* the pages with every box's classification fields blanked
WithoutClassifications(pages) ==
    [p \in 1..Len(pages) |-> [b \in 1..Len(pages[p]) |-> WithoutClassification(pages[p][b])]]

\* C30: when a filename is parsed again while a classification run for the
\* earlier file id is under way, the write of the earlier run never changes
\* the pages written by the later upload: once upload_bounding_boxes of the
\* later request has completed, the stored document names the later file
\* id, its pages are those of the later request but for classification
\* fields, and only runs for the later file id have changed them.
C30_LaterUploadKept ==
    xUploaded.pdf_file_id # 0 =>
        /\ xDoc.pdf_file_id = xUploaded.pdf_file_id
        /\ WithoutClassifications(xDoc.pages) = WithoutClassifications(xUploaded.pages)
        /\ xWriters \subseteq {xUploaded.pdf_file_id}

\* a run for the earlier file id came to its write after the later upload
\* had completed, and a run for the later file id has written
C30_Witness ==
    \E id \in 1..MaxRaceUploads :
        /\ id < xUploaded.pdf_file_id
        /\ xRuns[id].pc = "done"
        /\ xRuns[id].pages # <<>>
        /\ xRuns[id].missed
        /\ xWriters = {xUploaded.pdf_file_id}

====
